---- MODULE Spec2Model ----
(***************************************************************************)
(* Model of op-conductor-ops (ethereum-optimism/infra): the Sequencer      *)
(* snapshot refresh (sequencer.py), the Network aggregate (network.py) and *)
(* the operator commands of op-conductor-ops.py.                           *)
(*                                                                         *)
(* Python values are encoded as strings so that a snapshot field can hold  *)
(* None, a boolean or a hash: "None", "True", "False", "" and "h1", ...    *)
(***************************************************************************)
EXTENDS Integers, Sequences, FiniteSets, TLC

VARIABLES
    sequencers,         \* Network.sequencers: the member ids, in list order
    voting,             \* Sequencer.voting of every configured sequencer
    snap,               \* the observed snapshot fields of every Sequencer
    update_successful,  \* Sequencer.update_successful of every Sequencer
    net_update_successful, \* Network.update_successful
    cycle,              \* number of Sequencer.update() calls started on Self
    upc,                \* position of the thread running Sequencer.update()
    fut,                \* state of the future of every probe of this cycle
    outcome,            \* what the endpoint answered to every probe
    failures,           \* failed responses the endpoints gave so far
    worker,             \* Network.update: the executor's task of each member
    env,                \* the answers the endpoints may give to each probe
    cmd,                \* the command line: name, sequencer_id, force, ...
    pc,                 \* position of the command
    exit_code,          \* how the process ended: "none", "0", "1", "crash"
    rpcs,               \* the mutating RPCs issued, in order
    idx,                \* index of the member a command's loop is at
    leader,             \* the conductor leader the command resolved
    rm_leader,          \* the conductor leader remove_server resolved
    stack,              \* where the commands calling this one go on
    fas,                \* force_active_sequencer: its target and its hash
    membership,         \* the leader's cluster membership read by the command
    raft,               \* the Raft group as the conductors hold it
    warned,             \* ids reported as failed by the command
    clock,              \* time.time()
    start_time,         \* wait_for_condition's start_time
    user_input,         \* what the operator typed at a prompt, lower case
    cached_config,      \* ConfigManager.cached_config, in insertion order
    cache_lock,         \* the thread holding ConfigManager.cache_lock
    refresh,            \* each thread's position in refresh_cache
    repo_search_counter,        \* the counter refresh_cache increments
    event,              \* the position of process_event and its locals
    events_received_counter,    \* the counters of EventManager
    triggers_sent_counter,
    triggers_succeeded_counter,
    triggers            \* the CircleCI requests of the event, in order

vars == <<sequencers, voting, snap, update_successful, net_update_successful,
          cycle, upc, fut, outcome, failures, worker, env, cmd, pc, exit_code,
          rpcs, idx, leader, rm_leader, stack, fas, membership, raft, warned, clock,
          start_time, user_input, cached_config, cache_lock, refresh,
          repo_search_counter, event, events_received_counter,
          triggers_sent_counter, triggers_succeeded_counter, triggers>>

managerVars == <<cached_config, cache_lock, refresh, repo_search_counter>>
eventVars == <<event, events_received_counter, triggers_sent_counter,
               triggers_succeeded_counter, triggers>>
gemVars == <<managerVars, eventVars>>

netVars == <<sequencers, voting, net_update_successful, env>>
threadVars == <<cycle, upc, fut, outcome, failures, worker>>
cmdVars == <<cmd, pc, exit_code, rpcs, idx, leader, rm_leader, stack, fas,
             membership, raft, warned, clock, start_time, user_input>>

-----------------------------------------------------------------------------
(* Bounds of the model *)

\* Sequencer.update() calls made on one Sequencer object in one run
MaxCycles == 2
\* failed responses the endpoints give in one run of the refresh model
MaxFail == 1

-----------------------------------------------------------------------------
(* Python values *)

None == "None"
True == "True"
False == "False"

Bool(b) == IF b THEN True ELSE False

\* Python truthiness of a snapshot value: None, False and "" are falsy
Truthy(v) == v \notin {None, False, ""}

Nodes == {"s1", "s2", "s3"}

\* the Sequencer whose update() the refresh model follows
Self == "s1"

-----------------------------------------------------------------------------
(* sequencer.py *)

\* Sequencer.__init__: every observed field starts unknown
InitSnapshot ==
    [conductor_active |-> None, conductor_leader |-> None,
     sequencer_healthy |-> None, sequencer_active |-> None,
     unsafe_l2_hash |-> None, unsafe_l2_number |-> None]

\* the probe functions Sequencer.update() submits (no builder_rpc_url and no
\* rollup_boost_rpc_url configured)
Probes == {"conductor_active", "conductor_leader", "sequencer_healthy",
           "sequencer_active", "unsafe_l2"}

\* how a request can end: a result, a transport error raised by
\* requests.post, a non-2xx status, or a JSON-RPC answer without "result"
Kinds == {"ok", "transport", "http", "rpcerr"}
FailKinds == Kinds \ {"ok"}

\* optimism_syncStatus: the number of the block with the given hash
BlockNumber(h) == IF h = "h1" THEN "1" ELSE IF h = "h2" THEN "2" ELSE "0"

ProbeWriteShared(s, p, out) ==
    IF out.kind # "ok" THEN s
    ELSE IF p = "unsafe_l2"
         THEN [s EXCEPT !.unsafe_l2_number = BlockNumber(out.val),
                        !.unsafe_l2_hash = out.val]
         ELSE IF p = "conductor_leader"
         THEN [s EXCEPT !.conductor_leader = out.val,
                        !.conductor_active = out.val]
         ELSE [s EXCEPT ![p] = out.val]

\* _get_*: the snapshot after one probe got the answer out; a probe writes
\* its own field(s) only from a result and leaves them alone otherwise
ProbeWrite(s, p, out) ==
    IF out.kind # "ok" THEN s
    ELSE IF p = "unsafe_l2"
         THEN [s EXCEPT !.unsafe_l2_number = BlockNumber(out.val),
                        !.unsafe_l2_hash = out.val]
         ELSE [s EXCEPT ![p] = out.val]

\* _get_*: requests.post raises on a transport error, raise_for_status() is
\* caught (return None), resp.json()["result"] raises KeyError on an RPC error
ProbeRaises(out) == out.kind \in {"transport", "rpcerr"}

\* Sequencer.update, loop body: the flag follows the future just yielded
CollectFlag(old, out) == ~ProbeRaises(out)

\* what the endpoints of a Sequencer hold while its c-th refresh runs: the
\* remote state changes from one refresh to the next
RemoteValue(p, c) ==
    IF p = "unsafe_l2" THEN (IF c % 2 = 1 THEN "h1" ELSE "h2")
    ELSE Bool(c % 2 = 1)

NoOutcome == [kind |-> "none", val |-> None]

Ok(v) == [kind |-> "ok", val |-> v]
Fail(k) == [kind |-> k, val |-> None]

\* every answer an endpoint can give to the probe p
Answers(p) ==
    {Ok(v) : v \in IF p = "unsafe_l2" THEN {"h1", "h2"} ELSE {True, False}}
      \cup {Fail(k) : k \in FailKinds}

\* a thread that is not in refresh_cache
IdleRefresh == [pc |-> "idle", repos |-> <<>>, i |-> 0, new_cache |-> <<>>,
                fetched |-> <<>>]

\* ConfigManager.__init__ and EventManager.__init__: an empty cache, a free
\* lock, and counters at zero; no thread is in refresh_cache or
\* process_event
InitManagers ==
    /\ cached_config = <<>>
    /\ cache_lock = "free"
    /\ refresh = [t \in {"periodic", "queue"} |-> IdleRefresh]
    /\ repo_search_counter = 0
    /\ event = [pc |-> "idle", name |-> "", repo_configs |-> <<>>, i |-> 0,
                caught |-> FALSE]
    /\ events_received_counter = 0
    /\ triggers_sent_counter = 0
    /\ triggers_succeeded_counter = 0
    /\ triggers = <<>>

\* Sequencer.__init__ for every configured sequencer, Network.__init__
InitObjects ==
    /\ snap = [n \in Nodes |-> InitSnapshot]
    /\ update_successful = [n \in Nodes |-> FALSE]
    /\ net_update_successful = FALSE

InitThread ==
    /\ cycle = 0
    /\ upc = "idle"
    /\ fut = [p \in Probes |-> "idle"]
    /\ outcome = [p \in Probes |-> NoOutcome]
    /\ failures = 0
    /\ worker = [n \in Nodes |-> "idle"]

NoCmd == [name |-> "none", network |-> "net", sequencer_id |-> None,
          force |-> FALSE, remove |-> FALSE, y |-> FALSE,
          sequencer_start_timeout |-> 0, sequencer_healthy_timeout |-> 0]

NoFas == [target |-> None, force |-> FALSE, hash |-> None]

InitCmd ==
    /\ cmd = NoCmd
    /\ pc = "idle"
    /\ exit_code = "none"
    /\ rpcs = <<>>
    /\ idx = 0
    /\ leader = None
    /\ rm_leader = None
    /\ stack = <<>>
    /\ fas = NoFas
    /\ membership = {}
    /\ raft = {}
    /\ warned = {}
    /\ clock = 0
    /\ start_time = 0
    /\ user_input = None

\* Sequencer.update: the executor gets one future per probe function
UpdateStart ==
    /\ upc \in {"idle", "returned"}
    /\ cycle < MaxCycles
    /\ cycle' = cycle + 1
    /\ upc' = "collecting"
    /\ fut' = [p \in Probes |-> "pending"]
    /\ outcome' = [p \in Probes |-> NoOutcome]
    /\ UNCHANGED <<snap, update_successful, failures, worker, netVars, cmdVars,
                   gemVars>>

\* a worker thread runs the probe p to its end
ProbeRun(p) ==
    /\ fut[p] = "pending"
    /\ \E out \in env[Self][p] :
         /\ out.kind # "ok" => failures < MaxFail
         /\ out.kind = "ok" => out.val = RemoteValue(p, cycle)
         /\ snap' = [snap EXCEPT ![Self] = ProbeWrite(@, p, out)]
         /\ outcome' = [outcome EXCEPT ![p] = out]
         /\ failures' = IF out.kind = "ok" THEN failures ELSE failures + 1
    /\ fut' = [fut EXCEPT ![p] = "finished"]
    /\ UNCHANGED <<update_successful, cycle, upc, worker, netVars, cmdVars,
                   gemVars>>

\* Sequencer.update: as_completed yields a finished future, in any order
Collect(p) ==
    /\ upc = "collecting"
    /\ fut[p] = "finished"
    /\ update_successful' =
         [update_successful EXCEPT
            ![Self] = CollectFlag(update_successful[Self], outcome[p])]
    /\ fut' = [fut EXCEPT ![p] = "yielded"]
    /\ UNCHANGED <<snap, cycle, upc, outcome, failures, worker, netVars,
                   cmdVars, gemVars>>

UpdateReturnOnFailure ==
    /\ upc = "collecting"
    /\ \/ \A p \in Probes : fut[p] = "yielded"
       \/ \E p \in Probes : fut[p] = "yielded" /\ ProbeRaises(outcome[p])
    /\ upc' = "returned"
    /\ UNCHANGED <<snap, update_successful, cycle, fut, outcome, failures,
                   worker, netVars, cmdVars, gemVars>>

\* Sequencer.update: every future was yielded, the executor shuts down
UpdateReturn ==
    /\ upc = "collecting"
    /\ \A p \in Probes : fut[p] = "yielded"
    /\ upc' = "returned"
    /\ UNCHANGED <<snap, update_successful, cycle, fut, outcome, failures,
                   worker, netVars, cmdVars, gemVars>>

InitUpdate ==
    /\ sequencers = <<Self>>
    /\ voting = [n \in Nodes |-> TRUE]
    /\ env = [n \in Nodes |-> [p \in Probes \cup {"mutating"} |->
                               IF p = "mutating" THEN Kinds ELSE Answers(p)]]
    /\ InitObjects
    /\ InitThread
    /\ InitManagers
    /\ InitCmd

NextUpdate ==
    \/ UpdateStart
    \/ \E p \in Probes : ProbeRun(p)
    \/ \E p \in Probes : Collect(p)
    \/ UpdateReturn

\* one Sequencer object refreshed MaxCycles times, probe threads interleaved
SpecUpdate == InitUpdate /\ [][NextUpdate]_vars

-----------------------------------------------------------------------------
(* Sequencer.update and network.py, as the commands use them *)

\* the probe functions in the order Sequencer.update lists them
ProbeOrder == <<"conductor_active", "conductor_leader", "sequencer_healthy",
                "sequencer_active", "unsafe_l2">>

RECURSIVE ApplyProbes(_, _, _)
ApplyProbes(s, outs, i) ==
    IF i > Len(ProbeOrder) THEN s
    ELSE ApplyProbes(ProbeWrite(s, ProbeOrder[i], outs[ProbeOrder[i]]),
                     outs, i + 1)

\* Sequencer.update as one step: every probe got its answer of outs, and
\* the future of the probe last was the last one as_completed yielded
SequencerUpdate(s, flag, outs, last) ==
    [snap |-> ApplyProbes(s, outs, 1),
     update_successful |-> CollectFlag(flag, outs[last])]

Members == {sequencers[i] : i \in 1..Len(sequencers)}

FirstWithLast(sn, f, i) ==
    LET at == {j \in i..Len(sequencers) : Truthy(sn[sequencers[j]][f])}
    IN  IF at = {} THEN None
        ELSE sequencers[CHOOSE j \in at : \A k \in at : k <= j]

RECURSIVE FirstWith(_, _, _)
\* next(... for sequencer in self.sequencers if sequencer.<f>, None)
FirstWith(sn, f, i) ==
    IF i > Len(sequencers) THEN None
    ELSE IF Truthy(sn[sequencers[i]][f]) THEN sequencers[i]
         ELSE FirstWith(sn, f, i + 1)

\* Network.get_sequencer_by_id
get_sequencer_by_id(id) == IF id \in Members THEN id ELSE None

\* Network.find_conductor_leader
find_conductor_leader(sn) == FirstWith(sn, "conductor_leader", 1)

\* Network.find_active_sequencer
find_active_sequencer(sn) == FirstWith(sn, "sequencer_active", 1)

is_healthySome(sn) == \E n \in Members : Truthy(sn[n].sequencer_healthy)

\* Network.is_healthy
is_healthy(sn) == \A n \in Members : Truthy(sn[n].sequencer_healthy)

\* the combined answers the Sequencer n can get to its probes in a refresh
ProbeAnswers(n) ==
    {[conductor_active |-> a, conductor_leader |-> b, sequencer_healthy |-> c,
      sequencer_active |-> d, unsafe_l2 |-> e] :
        a \in env[n]["conductor_active"], b \in env[n]["conductor_leader"],
        c \in env[n]["sequencer_healthy"], d \in env[n]["sequencer_active"],
        e \in env[n]["unsafe_l2"]}

\* the probes whose future may be the last one yielded, one for each value
\* the flag can end with
LastYielded(outs) ==
    {CHOOSE p \in Probes : ProbeRaises(outs[p]) = b :
        b \in {ProbeRaises(outs[q]) : q \in Probes}}

\* Sequencer.update of the i-th member: every way it can end
Refreshed(i) ==
    IF i > Len(sequencers)
    THEN {[snap |-> InitSnapshot, update_successful |-> FALSE]}
    ELSE LET n == sequencers[i]
         IN {SequencerUpdate(snap[n], update_successful[n], outs, last) :
                <<outs, last>> \in
                    {ol \in ProbeAnswers(n) \X Probes :
                        ol[2] \in LastYielded(ol[1])}}

\* the place of the member n in Network.sequencers
Position(n) == CHOOSE i \in 1..Len(sequencers) : sequencers[i] = n

NetworkUpdateFirstOnly ==
    \E u1 \in Refreshed(1) :
        /\ snap' = [snap EXCEPT ![sequencers[1]] = u1.snap]
        /\ update_successful' =
             [update_successful EXCEPT ![sequencers[1]] = u1.update_successful]
        /\ net_update_successful' = u1.update_successful

\* Network.update (get_network): every member (there are three at most)
\* is refreshed, then the aggregate flag is computed. The primed variables
\* are the refreshed ones.
NetworkUpdate ==
    \E u1 \in Refreshed(1), u2 \in Refreshed(2), u3 \in Refreshed(3) :
        LET upd == <<u1, u2, u3>>
        IN /\ snap' = [n \in Nodes |->
                         IF n \in Members THEN upd[Position(n)].snap
                         ELSE snap[n]]
           /\ update_successful' =
                [n \in Nodes |-> IF n \in Members
                                 THEN upd[Position(n)].update_successful
                                 ELSE update_successful[n]]
           /\ net_update_successful' =
                \A n \in Members : upd[Position(n)].update_successful

-----------------------------------------------------------------------------
(* op-conductor-ops.py: what the commands share *)

\* a mutating JSON-RPC request: its method, the sequencer whose endpoint
\* got it, the sequencer id it is about, and how it ended
Rpc(method, to, arg, resp) ==
    [method |-> method, to |-> to, arg |-> arg, resp |-> resp]

\* the end of a command that neither catches requests.post nor
\* resp.raise_for_status(): an RPC error is reported and exits 1
UncaughtExit(resp) ==
    IF resp = "ok" THEN "0" ELSE IF resp = "rpcerr" THEN "1" ELSE "crash"

\* the sequencer ids an operator may pass: the members and an unknown id
Ids == Members \cup {"sx"}

NonZero(code) == code \in {"1", "crash"}

Issued(method) == {i \in 1..Len(rpcs) : rpcs[i].method = method}

\* the endpoints of one sequencer in a run: a probe of vary gets any
\* result, every other probe the result fixed, and a probe of flaky may
\* also fail in one of the ways of kinds; a mutating request ends in one
\* of the ways of mutating
EnvOf(vary, flaky, kinds, fixed, mutating) ==
    [p \in Probes \cup {"mutating"} |->
       IF p = "mutating" THEN mutating
       ELSE (IF p \in vary THEN {a \in Answers(p) : a.kind = "ok"}
             ELSE {Ok(fixed[p])})
              \cup (IF p \in flaky THEN {Fail(k) : k \in kinds} ELSE {})]

\* how a mutating request to the endpoints of the sequencer n can end
Responses(n) == env[n]["mutating"]

\* every sequencer of the run has the same kind of endpoints
InitEnv(vary, flaky, kinds, fixed, mutating) ==
    env = [n \in Nodes |-> EnvOf(vary, flaky, kinds, fixed, mutating)]

\* a quiet network: nothing leads, nothing sequences, all paused, unhealthy
Quiet == [conductor_active |-> False, conductor_leader |-> False,
          sequencer_healthy |-> False, sequencer_active |-> False,
          unsafe_l2 |-> "h1"]

-----------------------------------------------------------------------------
(* transfer-leader *)

\* transfer_leader up to the request: "rpc" when the request is made
TransferCheckNoVoterCheck(sn, id, force) ==
    LET sequencer == get_sequencer_by_id(id)
        ldr == find_conductor_leader(sn)
    IN  IF ldr = None THEN "1"
        ELSE IF sequencer = None THEN "crash"
        ELSE IF ~force /\ ~Truthy(sn[sequencer].sequencer_healthy) THEN "1"
        ELSE IF ~force /\ ~Truthy(sn[sequencer].conductor_active) THEN "1"
        ELSE "rpc"

TransferCheckNoHealthCheck(sn, id, force) ==
    LET sequencer == get_sequencer_by_id(id)
        ldr == find_conductor_leader(sn)
    IN  IF ldr = None THEN "1"
        ELSE IF sequencer = None THEN "crash"
        ELSE IF voting[sequencer] = FALSE THEN "1"
        ELSE IF ~force /\ ~Truthy(sn[sequencer].conductor_active) THEN "1"
        ELSE "rpc"

TransferCheckSelfShortCircuit(sn, id, force) ==
    LET sequencer == get_sequencer_by_id(id)
        ldr == find_conductor_leader(sn)
    IN  IF ldr = None THEN "1"
        ELSE IF sequencer = None THEN "crash"
        ELSE IF sequencer = ldr THEN "0"
        ELSE IF voting[sequencer] = FALSE THEN "1"
        ELSE IF ~force /\ ~Truthy(sn[sequencer].sequencer_healthy) THEN "1"
        ELSE IF ~force /\ ~Truthy(sn[sequencer].conductor_active) THEN "1"
        ELSE "rpc"

\* transfer_leader up to the request: the exit taken, or "rpc" when the
\* request is made. A target that is no member ends in the AttributeError
\* of the debug f-string on sequencer.sequencer_id; a paused leader is
\* reported and the command goes on.
TransferCheck(sn, id, force) ==
    LET sequencer == get_sequencer_by_id(id)
        ldr == find_conductor_leader(sn)
    IN  IF ldr = None THEN "1"
        ELSE IF sequencer = None THEN "crash"
        ELSE IF voting[sequencer] = FALSE THEN "1"
        ELSE IF ~force /\ ~Truthy(sn[sequencer].sequencer_healthy) THEN "1"
        ELSE IF ~force /\ ~Truthy(sn[sequencer].conductor_active) THEN "1"
        ELSE "rpc"

\* transfer_leader: refresh, resolve target and leader, check
transfer_leader ==
    /\ pc = "idle"
    /\ \E id \in Ids, force \in BOOLEAN :
         cmd' = [NoCmd EXCEPT !.name = "transfer-leader",
                              !.sequencer_id = id, !.force = force]
    /\ NetworkUpdate
    /\ leader' = find_conductor_leader(snap')
    /\ LET v == TransferCheck(snap', cmd'.sequencer_id, cmd'.force)
       IN /\ pc' = IF v = "rpc" THEN "transfer_rpc" ELSE "done"
          /\ exit_code' = IF v = "rpc" THEN "none" ELSE v
    /\ UNCHANGED <<sequencers, voting, env, threadVars, rpcs, idx, rm_leader,
                   stack, membership, raft, warned, clock, start_time, fas,
                   user_input, gemVars>>

\* transfer_leader: conductor_transferLeaderToServer to the leader
transfer_leader_rpc ==
    /\ pc = "transfer_rpc"
    /\ \E resp \in Responses(leader) :
         /\ rpcs' = Append(rpcs, Rpc("conductor_transferLeaderToServer",
                                     leader, cmd.sequencer_id, resp))
         /\ exit_code' = UncaughtExit(resp)
    /\ pc' = "done"
    /\ UNCHANGED <<snap, update_successful, netVars, threadVars, cmd, idx,
                   leader, rm_leader, stack, membership, raft, warned, clock,
                   start_time, fas, user_input, gemVars>>

InitTransfer ==
    /\ sequencers = <<"s1", "s2">>
    /\ voting \in {v \in [Nodes -> BOOLEAN] : v["s3"]}
    /\ InitEnv({"conductor_active", "conductor_leader", "sequencer_healthy"},
               {"conductor_active", "conductor_leader", "sequencer_healthy"},
               {"http"}, Quiet, Kinds)
    /\ InitObjects
    /\ InitThread
    /\ InitManagers
    /\ InitCmd

NextTransfer ==
    \/ transfer_leader
    \/ transfer_leader_rpc

\* one run of transfer-leader on a network of two sequencers
SpecTransfer == InitTransfer /\ [][NextTransfer]_vars

Target == cmd.sequencer_id

TransferIssued == Issued("conductor_transferLeaderToServer") # {}

\* C3: transfer-leader to a target whose configured voting flag is false
\* exits non-zero and never issues conductor_transferLeaderToServer, for
\* every snapshot and both values of force.
C3_NonVoterRejected ==
    (cmd.name = "transfer-leader" /\ Target \in Members /\ ~voting[Target])
        => /\ ~TransferIssued
           /\ pc = "done" /\ NonZero(exit_code)

\* a non-voting target of a forced transfer was rejected although a leader
\* was found and the target was healthy and active
C3_Witness ==
    /\ cmd.name = "transfer-leader" /\ pc = "done" /\ cmd.force
    /\ Target \in Members /\ ~voting[Target]
    /\ leader # None /\ leader # Target
    /\ Truthy(snap[Target].sequencer_healthy)
    /\ Truthy(snap[Target].conductor_active)
    /\ exit_code = "1"

\* C4: without force, a voting target whose sequencer_healthy is not true
\* is rejected with no transfer request; with force, the request goes to
\* the current leader whatever the target's health.
C4_UnhealthyNeedsForce ==
    (cmd.name = "transfer-leader" /\ Target \in Members /\ voting[Target]
       /\ ~Truthy(snap[Target].sequencer_healthy))
        => IF cmd.force
           THEN leader # None =>
                  \/ pc = "transfer_rpc"
                  \/ /\ pc = "done"
                     /\ Len(rpcs) = 1
                     /\ rpcs[1].method = "conductor_transferLeaderToServer"
                     /\ rpcs[1].to = find_conductor_leader(snap)
                     /\ rpcs[1].arg = Target
           ELSE ~TransferIssued /\ pc = "done" /\ NonZero(exit_code)

\* a forced transfer to an unhealthy voter reached the leader
C4_Witness ==
    /\ cmd.name = "transfer-leader" /\ pc = "done" /\ cmd.force
    /\ Target \in Members /\ voting[Target]
    /\ snap[Target].sequencer_healthy = False
    /\ TransferIssued /\ exit_code = "0"

\* C5: without force, a paused leader or a paused target aborts the command
\* and no conductor_transferLeaderToServer is issued.
C5_PausedAborts ==
    (cmd.name = "transfer-leader" /\ ~cmd.force /\ Target \in Members
       /\ leader # None
       /\ (~Truthy(snap[leader].conductor_active)
             \/ ~Truthy(snap[Target].conductor_active)))
        => ~TransferIssued /\ (pc = "done" => NonZero(exit_code))

-----------------------------------------------------------------------------
(* Claims about Sequencer.update *)

ProbeFields(p) ==
    IF p = "unsafe_l2" THEN {"unsafe_l2_hash", "unsafe_l2_number"} ELSE {p}

\* C1: after Sequencer.update() returns, update_successful is true if and
\* only if every probe of that refresh completed without error, whatever
\* the order in which the probes completed.
C1_FlagIffAllProbesOk ==
    upc = "returned" =>
        (update_successful[Self] <=> \A p \in Probes : outcome[p].kind = "ok")

\* C2: after a refresh, the field(s) of a probe that failed are unknown
\* (None), never a value kept from an earlier refresh, and the fields of
\* the other probes hold the values read in this refresh.
C2_FailedProbeFieldUnknown ==
    upc = "returned" =>
        \A p \in Probes :
            IF outcome[p].kind = "ok"
            THEN snap[Self] = ProbeWrite(snap[Self], p, outcome[p])
            ELSE \A f \in ProbeFields(p) : snap[Self][f] = None

-----------------------------------------------------------------------------
(* remove-server and update-cluster-membership *)

\* the ids a Raft group may hold: the configured ones and a foreign one
RaftIds == Members \cup {"sx"}

\* conductor_clusterMembership: {id, suffrage} entries, one for each id
RaftGroups ==
    {g \in SUBSET (RaftIds \X {0, 1}) :
        \A x \in g, y \in g : x[1] = y[1] => x = y}

InGroup(g, id) == \E x \in g : x[1] = id
SuffrageOf(g, id) == (CHOOSE x \in g : x[1] = id)[2]

\* what the conductors do with a request that succeeded: a removed server
\* leaves the group, an added voter is (or becomes) a voter, a server added
\* as a non-voter joins as one unless it already is in the group
RaftApply(g, method, id) ==
    CASE method = "conductor_removeServer" -> {x \in g : x[1] # id}
      [] method = "conductor_addServerAsVoter" ->
            {x \in g : x[1] # id} \cup {<<id, 0>>}
      [] method = "conductor_addServerAsNonvoter" ->
            IF InGroup(g, id) THEN g ELSE g \cup {<<id, 1>>}
      [] OTHER -> g

\* int(not sequencer.voting)
IntNotVoting(id) == IF voting[id] THEN 0 ELSE 1

NeedsRemoveNever(mem, id) == FALSE

NeedsRemoveAlways(mem, id) == InGroup(mem, id)

\* update_cluster_membership: the sequencer is in the membership read from
\* the leader with a suffrage that is not the configured one
NeedsRemove(mem, id) ==
    InGroup(mem, id) /\ IntNotVoting(id) # SuffrageOf(mem, id)

AddMethodVoter(id) == "conductor_addServerAsVoter"

\* update_cluster_membership: the add method of the configured voting flag
AddMethod(id) ==
    IF voting[id] THEN "conductor_addServerAsVoter"
    ELSE "conductor_addServerAsNonvoter"

\* a command returns: to its caller, or the process ends with status 0
Return ==
    IF stack = <<>>
    THEN pc' = "done" /\ exit_code' = "0" /\ stack' = stack
    ELSE pc' = Head(stack) /\ exit_code' = exit_code /\ stack' = Tail(stack)

\* typer.Exit or an uncaught exception: no caller catches either
Abort(code) == pc' = "done" /\ exit_code' = code /\ stack' = <<>>

\* update_cluster_membership: refresh and resolve the leader; ret is
\* where the caller goes on
UcmEnter(ret) ==
    /\ NetworkUpdate
    /\ leader' = find_conductor_leader(snap')
    /\ IF leader' = None THEN Abort("1")
       ELSE pc' = "ucm_membership" /\ exit_code' = exit_code
              /\ stack' = ret \o stack
    /\ UNCHANGED <<sequencers, voting, env, threadVars, rpcs, idx, rm_leader,
                   membership, raft, warned, clock, start_time, fas,
                   user_input, gemVars>>

\* update-cluster-membership, from the command line
update_cluster_membership ==
    /\ pc = "idle"
    /\ cmd' = [NoCmd EXCEPT !.name = "update-cluster-membership"]
    /\ UcmEnter(<<>>)

ucm_cluster_membershipCaught ==
    /\ pc = "ucm_membership"
    /\ \E resp \in Responses(leader) :
         /\ membership' = IF resp = "ok" THEN raft ELSE {}
         /\ idx' = 1
         /\ pc' = "ucm_loop"
         /\ UNCHANGED <<exit_code, stack>>
    /\ UNCHANGED <<snap, update_successful, netVars, threadVars, cmd, rpcs,
                   leader, rm_leader, raft, warned, clock, start_time, fas,
                   user_input, gemVars>>

\* update_cluster_membership: leader.cluster_membership(), uncaught
ucm_cluster_membership ==
    /\ pc = "ucm_membership"
    /\ \E resp \in Responses(leader) :
         IF resp = "ok"
         THEN /\ membership' = raft
              /\ idx' = 1
              /\ pc' = "ucm_loop"
              /\ UNCHANGED <<exit_code, stack>>
         ELSE /\ Abort("crash")
              /\ UNCHANGED <<membership, idx>>
    /\ UNCHANGED <<snap, update_successful, netVars, threadVars, cmd, rpcs,
                   leader, rm_leader, raft, warned, clock, start_time, fas,
                   user_input, gemVars>>

\* update_cluster_membership, loop: the sequencer needs no removal
ucm_keep ==
    /\ pc = "ucm_loop"
    /\ idx <= Len(sequencers)
    /\ ~NeedsRemove(membership, sequencers[idx])
    /\ pc' = "ucm_add"
    /\ UNCHANGED <<snap, update_successful, netVars, threadVars, cmd,
                   exit_code, rpcs, idx, leader, rm_leader, stack, membership,
                   raft, warned, clock, start_time, fas, user_input, gemVars>>

\* update_cluster_membership, loop: remove_server(network, id) is called,
\* which refreshes the network again and resolves the leader itself
ucm_remove_server ==
    /\ pc = "ucm_loop"
    /\ idx <= Len(sequencers)
    /\ NeedsRemove(membership, sequencers[idx])
    /\ NetworkUpdate
    /\ rm_leader' = find_conductor_leader(snap')
    /\ IF rm_leader' = None
       THEN Abort("1")
       ELSE /\ pc' = "remove_rpc"
            /\ stack' = <<"ucm_add">> \o stack
            /\ exit_code' = exit_code
    /\ UNCHANGED <<sequencers, voting, env, threadVars, cmd, rpcs, idx, leader,
                   membership, raft, warned, clock, start_time, fas,
                   user_input, gemVars>>

\* remove_server(network, sequencer_id): the id the caller passed
RemoveTarget == IF cmd.name = "remove-server" THEN cmd.sequencer_id
                ELSE sequencers[idx]

\* remove-server, from the command line: refresh, resolve the leader, look
\* the sequencer up
remove_server ==
    /\ pc = "idle"
    /\ \E id \in Ids :
         cmd' = [NoCmd EXCEPT !.name = "remove-server", !.sequencer_id = id]
    /\ NetworkUpdate
    /\ rm_leader' = find_conductor_leader(snap')
    /\ IF rm_leader' = None THEN Abort("1")
       ELSE /\ pc' = IF get_sequencer_by_id(cmd'.sequencer_id) = None
                     THEN "remove_membership" ELSE "remove_rpc"
            /\ UNCHANGED <<exit_code, stack>>
    /\ UNCHANGED <<sequencers, voting, env, threadVars, rpcs, idx, leader, fas,
                   membership, raft, warned, clock, start_time, user_input,
                   gemVars>>

\* remove_server of an id that is no configured sequencer: it has to be
\* in leader.cluster_membership(), which is read uncaught
remove_server_membership ==
    /\ pc = "remove_membership"
    /\ \E resp \in Responses(rm_leader) :
         IF resp = "ok"
         THEN /\ membership' = raft
              /\ IF InGroup(raft, cmd.sequencer_id)
                 THEN pc' = "remove_rpc" /\ UNCHANGED <<exit_code, stack>>
                 ELSE Abort("1")
         ELSE Abort("crash") /\ membership' = membership
    /\ UNCHANGED <<snap, update_successful, netVars, threadVars, cmd, rpcs,
                   idx, leader, rm_leader, fas, raft, warned, clock,
                   start_time, user_input, gemVars>>

remove_server_rpcDropMember ==
    /\ pc = "remove_rpc"
    /\ \E resp \in Responses(rm_leader) :
         /\ rpcs' = Append(rpcs, Rpc("conductor_removeServer", rm_leader,
                                     RemoveTarget, resp))
         /\ IF resp = "ok"
            THEN /\ raft' = RaftApply(raft, "conductor_removeServer",
                                      RemoveTarget)
                 /\ sequencers' = SelectSeq(sequencers,
                                            LAMBDA n : n # RemoveTarget)
                 /\ Return
            ELSE /\ raft' = raft
                 /\ sequencers' = sequencers
                 /\ Abort(UncaughtExit(resp))
    /\ UNCHANGED <<snap, update_successful, voting, net_update_successful,
                   env, threadVars, cmd, idx, leader, rm_leader, membership,
                   warned, clock, start_time, fas, user_input, gemVars>>

\* remove_server: conductor_removeServer to the leader, uncaught
remove_server_rpc ==
    /\ pc = "remove_rpc"
    /\ \E resp \in Responses(rm_leader) :
         /\ rpcs' = Append(rpcs, Rpc("conductor_removeServer", rm_leader,
                                     RemoveTarget, resp))
         /\ IF resp = "ok"
            THEN /\ raft' = RaftApply(raft, "conductor_removeServer",
                                      RemoveTarget)
                 /\ Return
            ELSE /\ raft' = raft
                 /\ Abort(UncaughtExit(resp))
    /\ UNCHANGED <<snap, update_successful, netVars, threadVars, cmd, idx,
                   leader, rm_leader, membership, warned, clock, start_time,
                   fas, user_input, gemVars>>

\* update_cluster_membership, loop: the add request goes to the leader
\* resolved at the start; requests.post is outside the try, a bad status
\* or an RPC error is warned about
ucm_add ==
    /\ pc = "ucm_add"
    /\ \E resp \in Responses(leader) :
         LET id == sequencers[idx]
         IN /\ rpcs' = Append(rpcs, Rpc(AddMethod(id), leader, id, resp))
            /\ raft' = IF resp = "ok" THEN RaftApply(raft, AddMethod(id), id)
                       ELSE raft
            /\ warned' = IF resp \in {"http", "rpcerr"}
                         THEN warned \cup {id} ELSE warned
            /\ IF resp = "transport"
               THEN Abort("crash") /\ idx' = idx
               ELSE /\ pc' = "ucm_loop"
                    /\ idx' = idx + 1
                    /\ UNCHANGED <<exit_code, stack>>
    /\ UNCHANGED <<snap, update_successful, netVars, threadVars, cmd, leader,
                   rm_leader, membership, clock, start_time, fas, user_input,
                   gemVars>>

\* update_cluster_membership: the loop is over; error is never set
ucm_end ==
    /\ pc = "ucm_loop"
    /\ idx > Len(sequencers)
    /\ Return
    /\ UNCHANGED <<snap, update_successful, netVars, threadVars, cmd, rpcs,
                   idx, leader, rm_leader, membership, raft, warned, clock,
                   start_time, fas, user_input, gemVars>>

InitMembership ==
    /\ sequencers = <<"s1", "s2">>
    /\ voting \in {v \in [Nodes -> BOOLEAN] : v["s3"]}
    /\ InitEnv({"conductor_leader"}, {"conductor_leader"}, {"http"}, Quiet,
               Kinds)
    /\ InitObjects
    /\ InitThread
    /\ InitManagers
    /\ cmd = NoCmd /\ pc = "idle" /\ exit_code = "none" /\ rpcs = <<>>
    /\ idx = 0 /\ leader = None /\ rm_leader = None /\ stack = <<>>
    /\ fas = NoFas
    /\ membership = {} /\ warned = {} /\ clock = 0 /\ start_time = 0
    /\ user_input = None
    /\ raft \in RaftGroups

NextMembership ==
    \/ remove_server
    \/ remove_server_membership
    \/ update_cluster_membership
    \/ ucm_cluster_membership
    \/ ucm_keep
    \/ ucm_remove_server
    \/ remove_server_rpc
    \/ ucm_add
    \/ ucm_end

\* one run of remove-server or update-cluster-membership, from any Raft
\* group
SpecMembership == InitMembership /\ [][NextMembership]_vars

\* the requests about the sequencer id, in the order they were made
RECURSIVE About(_, _)
About(log, id) ==
    IF log = <<>> THEN <<>>
    ELSE (IF Head(log).arg = id THEN <<Head(log).method>> ELSE <<>>)
           \o About(Tail(log), id)

\* the loop went past the i-th configured sequencer
Handled(i) == cmd.name = "update-cluster-membership" /\ i < idx

\* C6: a configured node that is in the Raft group with a suffrage not
\* matching its voting flag is first removed and only then re-added with
\* the method of its voting flag; a configured node absent from the group
\* gets exactly one add request and no remove request.
C6_RemoveThenAdd ==
    \A i \in 1..Len(sequencers) :
        LET id == sequencers[i]
            mine == About(rpcs, id)
            add == IF voting[id] THEN "conductor_addServerAsVoter"
                   ELSE "conductor_addServerAsNonvoter"
            mismatch == \/ voting[id] /\ <<id, 1>> \in membership
                        \/ ~voting[id] /\ <<id, 0>> \in membership
            absent == <<id, 0>> \notin membership
                        /\ <<id, 1>> \notin membership
        IN  /\ (idx >= 1 /\ mismatch) =>
                 /\ mine \in {<<>>, <<"conductor_removeServer">>,
                              <<"conductor_removeServer", add>>}
                 /\ Handled(i) => mine = <<"conductor_removeServer", add>>
            /\ (idx >= 1 /\ absent) =>
                 /\ mine \in {<<>>, <<add>>}
                 /\ Handled(i) => mine = <<add>>

\* the run handled a sequencer that was a voter and is configured
\* non-voting, and a sequencer that was not in the group
C6_Witness ==
    /\ pc = "done" /\ exit_code = "0"
    /\ cmd.name = "update-cluster-membership"
    /\ ~voting["s1"] /\ <<"s1", 0>> \in membership
    /\ ~InGroup(membership, "s2")
    /\ About(rpcs, "s1") = <<"conductor_removeServer",
                             "conductor_addServerAsNonvoter">>
    /\ voting["s2"]
    /\ About(rpcs, "s2") = <<"conductor_addServerAsVoter">>
    /\ \A i \in 1..Len(rpcs) : rpcs[i].resp = "ok"

\* C7: a failure while handling one configured node is warned about and
\* every later configured node is still handled; the command never ends
\* before the loop went past every configured node.
C7_NoGlobalAbort ==
    (cmd.name = "update-cluster-membership" /\ pc = "done" /\ idx >= 1)
        => idx > Len(sequencers)

-----------------------------------------------------------------------------
(* pause, resume and halt-sequencer *)

\* pause / resume: all the sequencers, or the one of --sequencer-id
Selected == IF cmd.sequencer_id = None THEN sequencers
            ELSE <<cmd.sequencer_id>>

\* pause / resume up to the loop: refresh, then select the sequencers
ConductorEnter(loop, ret) ==
    /\ NetworkUpdate
    /\ IF cmd'.sequencer_id # None
            /\ get_sequencer_by_id(cmd'.sequencer_id) = None
       THEN Abort("1") /\ idx' = idx
       ELSE /\ pc' = loop
            /\ idx' = 1
            /\ exit_code' = exit_code
            /\ stack' = ret \o stack
    /\ UNCHANGED <<sequencers, voting, env, threadVars, rpcs, leader,
                   rm_leader, membership, raft, warned, clock, start_time, fas,
                   user_input, gemVars>>

\* pause / resume, from the command line
ConductorCommand(name, loop) ==
    /\ pc = "idle"
    /\ \E id \in Ids \cup {None} :
         cmd' = [NoCmd EXCEPT !.name = name, !.sequencer_id = id]
    /\ ConductorEnter(loop, <<>>)

\* pause / resume, loop body: requests.post is outside the try, a bad
\* status or an RPC error is caught and reported
LoopFailure(resp) == IF resp = "transport" THEN "crash" ELSE "next"

\* pause / resume, loop body for the sequencer at idx
ConductorRpc(loop, method) ==
    /\ pc = loop
    /\ idx <= Len(Selected)
    /\ \E resp \in Responses(Selected[idx]) :
         /\ rpcs' = Append(rpcs, Rpc(method, Selected[idx], Selected[idx],
                                     resp))
         /\ IF LoopFailure(resp) = "crash"
            THEN Abort("crash") /\ idx' = idx /\ warned' = warned
            ELSE /\ idx' = idx + 1
                 /\ warned' = IF resp = "ok" THEN warned
                              ELSE warned \cup {Selected[idx]}
                 /\ UNCHANGED <<pc, exit_code, stack>>
    /\ UNCHANGED <<snap, update_successful, netVars, threadVars, cmd, leader,
                   rm_leader, membership, raft, clock, start_time, fas,
                   user_input, gemVars>>

\* pause / resume: the loop is over; error is still False
ConductorEnd(loop) ==
    /\ pc = loop
    /\ idx > Len(Selected)
    /\ Return
    /\ UNCHANGED <<snap, update_successful, netVars, threadVars, cmd, rpcs,
                   idx, leader, rm_leader, membership, raft, warned, clock,
                   start_time, fas, user_input, gemVars>>

pause == ConductorCommand("pause", "pause_loop")
pause_rpc == ConductorRpc("pause_loop", "conductor_pause")
pause_end == ConductorEnd("pause_loop")

resume == ConductorCommand("resume", "resume_loop")
resume_rpc == ConductorRpc("resume_loop", "conductor_resume")
resume_end == ConductorEnd("resume_loop")

\* halt_sequencer up to the request
HaltCheck(sn, force) ==
    LET all_conductors_paused ==
            \A n \in Members : ~Truthy(sn[n].conductor_active)
    IN  IF ~all_conductors_paused /\ ~force THEN "1"
        ELSE IF find_active_sequencer(sn) = None THEN "1"
        ELSE "rpc"

\* halt_sequencer: refresh and check
halt_sequencer ==
    /\ pc = "idle"
    /\ \E force \in BOOLEAN :
         cmd' = [NoCmd EXCEPT !.name = "halt-sequencer", !.force = force]
    /\ NetworkUpdate
    /\ IF HaltCheck(snap', cmd'.force) = "rpc"
       THEN pc' = "halt_rpc" /\ UNCHANGED <<exit_code, stack>>
       ELSE Abort("1")
    /\ UNCHANGED <<sequencers, voting, env, threadVars, rpcs, idx, leader,
                   rm_leader, membership, raft, warned, clock, start_time, fas,
                   user_input, gemVars>>

\* halt_sequencer: admin_stopSequencer to the active sequencer; the whole
\* request is inside the try and a failure is only warned about
halt_sequencer_rpc ==
    /\ pc = "halt_rpc"
    /\ \E resp \in Responses(find_active_sequencer(snap)) :
         LET active_sequencer == find_active_sequencer(snap)
         IN /\ rpcs' = Append(rpcs, Rpc("admin_stopSequencer",
                                        active_sequencer, active_sequencer,
                                        resp))
            /\ warned' = IF resp = "ok" THEN warned
                         ELSE warned \cup {active_sequencer}
    /\ Return
    /\ UNCHANGED <<snap, update_successful, netVars, threadVars, cmd, idx,
                   leader, rm_leader, membership, raft, clock, start_time, fas,
                   user_input, gemVars>>

InitConductors ==
    /\ sequencers = <<"s1", "s2", "s3">>
    /\ voting = [n \in Nodes |-> TRUE]
    /\ InitEnv({"conductor_active", "sequencer_active"},
               {"conductor_active", "sequencer_active"}, {"http"}, Quiet,
               Kinds)
    /\ InitObjects
    /\ InitThread
    /\ InitManagers
    /\ InitCmd

NextConductors ==
    \/ pause
    \/ pause_rpc
    \/ pause_end
    \/ resume
    \/ resume_rpc
    \/ resume_end
    \/ halt_sequencer
    \/ halt_sequencer_rpc

\* one run of pause, resume or halt-sequencer on three sequencers
SpecConductors == InitConductors /\ [][NextConductors]_vars

SelectedSet == {Selected[i] : i \in 1..Len(Selected)}

Failed == {i \in 1..Len(rpcs) : rpcs[i].resp # "ok"}

\* C8: pause and resume: whichever selected node's request fails, every
\* other selected node still gets its request (those after the failing one
\* included) and the failing node is reported; the loop never stops early.
C8_LoopNeverStopsEarly ==
    (cmd.name \in {"pause", "resume"} /\ pc = "done" /\ idx >= 1)
        => /\ \A n \in SelectedSet : \E i \in 1..Len(rpcs) : rpcs[i].to = n
           /\ \A i \in Failed : rpcs[i].to \in warned

\* C9: pause, resume, update-cluster-membership and halt-sequencer end with
\* a non-zero status whenever a mutating request they issued failed, and
\* with zero only when every issued request succeeded.
C9_ExitStatusReflectsFailures ==
    (cmd.name \in {"pause", "resume", "halt-sequencer",
                   "update-cluster-membership"} /\ pc = "done")
        => /\ Failed # {} => NonZero(exit_code)
           /\ exit_code = "0" => Failed = {}

-----------------------------------------------------------------------------
(* force-active-sequencer *)

\* the hashes admin_stopSequencer may return
StopHashes == {"h2", ""}

FasCheckNoPausedCheck(sn, id, force) ==
    LET sequencer == get_sequencer_by_id(id)
    IN  IF sequencer = None THEN "1"
        ELSE IF find_active_sequencer(sn) # None THEN "stop"
        ELSE IF ~Truthy(sn[sequencer].unsafe_l2_hash) THEN "1"
        ELSE "start"

FasCheckNoHashCheck(sn, id, force) ==
    LET sequencer == get_sequencer_by_id(id)
        all_paused == \A n \in Members : ~Truthy(sn[n].conductor_active)
    IN  IF sequencer = None THEN "1"
        ELSE IF ~all_paused /\ ~force THEN "1"
        ELSE IF find_active_sequencer(sn) # None THEN "stop"
        ELSE "start"

\* force_active_sequencer up to its first request
FasCheck(sn, id, force) ==
    LET sequencer == get_sequencer_by_id(id)
        all_paused == \A n \in Members : ~Truthy(sn[n].conductor_active)
    IN  IF sequencer = None THEN "1"
        ELSE IF ~all_paused /\ ~force THEN "1"
        ELSE IF find_active_sequencer(sn) # None THEN "stop"
        ELSE IF ~Truthy(sn[sequencer].unsafe_l2_hash) THEN "1"
        ELSE "start"

\* force_active_sequencer: refresh, find the target, check the conductors,
\* take the target's unsafe hash; ret is where the caller goes on
FasEnter(id, force, ret) ==
    /\ NetworkUpdate
    /\ LET v == FasCheck(snap', id, force)
       IN /\ fas' = [target |-> id, force |-> force,
                     hash |-> IF id \in Members
                              THEN snap'[id].unsafe_l2_hash ELSE None]
          /\ IF v = "1" THEN Abort("1")
             ELSE /\ pc' = IF v = "stop" THEN "fas_stop" ELSE "fas_start"
                  /\ exit_code' = exit_code
                  /\ stack' = ret \o stack
    /\ UNCHANGED <<sequencers, voting, env, threadVars, rpcs, idx, leader,
                   rm_leader, membership, raft, warned, clock, start_time,
                   user_input, gemVars>>

\* force-active-sequencer, from the command line
force_active_sequencer ==
    /\ pc = "idle"
    /\ \E id \in Ids, force \in BOOLEAN :
         /\ cmd' = [NoCmd EXCEPT !.name = "force-active-sequencer",
                                 !.sequencer_id = id, !.force = force]
         /\ FasEnter(id, force, <<>>)

\* force_active_sequencer: admin_stopSequencer to the active sequencer,
\* uncaught; the hash it returns replaces the target's
fas_stop ==
    /\ pc = "fas_stop"
    /\ \E resp \in Responses(find_active_sequencer(snap)) :
         LET active_sequencer == find_active_sequencer(snap)
         IN /\ rpcs' = Append(rpcs, Rpc("admin_stopSequencer",
                                        active_sequencer, None, resp))
            /\ IF resp = "ok"
               THEN \E h \in StopHashes :
                      /\ fas' = [fas EXCEPT !.hash = h]
                      /\ IF ~Truthy(h) THEN Abort("1")
                         ELSE pc' = "fas_start"
                                /\ UNCHANGED <<exit_code, stack>>
               ELSE fas' = fas /\ Abort(UncaughtExit(resp))
    /\ UNCHANGED <<snap, update_successful, netVars, threadVars, cmd, idx,
                   leader, rm_leader, membership, raft, warned, clock,
                   start_time, user_input, gemVars>>

\* force_active_sequencer: sleep a second, admin_startSequencer with the
\* hash to the target, uncaught
fas_start ==
    /\ pc = "fas_start"
    /\ clock' = clock + 1
    /\ \E resp \in Responses(fas.target) :
         /\ rpcs' = Append(rpcs, Rpc("admin_startSequencer", fas.target,
                                     fas.hash, resp))
         /\ IF resp = "ok" THEN Return ELSE Abort(UncaughtExit(resp))
    /\ UNCHANGED <<snap, update_successful, netVars, threadVars, cmd, idx,
                   leader, rm_leader, fas, membership, raft, warned,
                   start_time, user_input, gemVars>>

-----------------------------------------------------------------------------
(* wait_for_condition and bootstrap-cluster *)

\* retry_seconds as bootstrap_cluster passes it
RetrySeconds == 10

\* the values of --sequencer-start-timeout and --sequencer-healthy-timeout
Timeouts == {0, RetrySeconds}

WaitTimeoutRestarted(at, cond, timeout_seconds) ==
    /\ pc = at
    /\ ~cond
    /\ clock - clock > timeout_seconds
    /\ Abort("1")
    /\ UNCHANGED <<snap, update_successful, netVars, threadVars, cmd, rpcs,
                   idx, leader, rm_leader, fas, membership, raft, warned,
                   clock, start_time, user_input, gemVars>>

\* wait_for_condition: the condition is false and the time is up
WaitTimeout(at, cond, timeout_seconds) ==
    /\ pc = at
    /\ ~cond
    /\ clock - start_time > timeout_seconds
    /\ Abort("1")
    /\ UNCHANGED <<snap, update_successful, netVars, threadVars, cmd, rpcs,
                   idx, leader, rm_leader, fas, membership, raft, warned,
                   clock, start_time, user_input, gemVars>>

\* wait_for_condition: the condition is false, sleep, then update_func()
WaitRetry(at, cond, timeout_seconds) ==
    /\ pc = at
    /\ ~cond
    /\ ~(clock - start_time > timeout_seconds)
    /\ clock' = clock + RetrySeconds
    /\ NetworkUpdate
    /\ UNCHANGED <<sequencers, voting, env, threadVars, cmd, pc, exit_code,
                   rpcs, idx, leader, rm_leader, stack, fas, membership, raft,
                   warned, start_time, user_input, gemVars>>

\* bootstrap_cluster, after the first wait
BootstrapCheckNoHealthyExit(sn) ==
    LET ldr == find_conductor_leader(sn)
    IN  IF ldr = None THEN "1"
        ELSE IF Truthy(sn[ldr].conductor_active) THEN "1"
        ELSE IF \E n \in Members : n # ldr /\ Truthy(sn[n].sequencer_active)
             THEN "1"
        ELSE IF ~Truthy(sn[ldr].sequencer_active) THEN "force"
        ELSE "wait"

BootstrapCheckNoLeaderCheck(sn) ==
    LET ldr == find_conductor_leader(sn)
    IN  IF is_healthy(sn) THEN "0"
        ELSE IF ldr = None THEN "1"
        ELSE IF \E n \in Members : n # ldr /\ Truthy(sn[n].sequencer_active)
             THEN "1"
        ELSE IF ~Truthy(sn[ldr].sequencer_active) THEN "force"
        ELSE "wait"

\* bootstrap_cluster, after the first wait: a healthy network ends the
\* command with status 0, then the leader is resolved and checked
BootstrapCheck(sn) ==
    LET ldr == find_conductor_leader(sn)
    IN  IF is_healthy(sn) THEN "0"
        ELSE IF ldr = None THEN "1"
        ELSE IF Truthy(sn[ldr].conductor_active) THEN "1"
        ELSE IF \E n \in Members : n # ldr /\ Truthy(sn[n].sequencer_active)
             THEN "1"
        ELSE IF ~Truthy(sn[ldr].sequencer_active) THEN "force"
        ELSE "wait"

\* bootstrap_cluster: refresh, then wait_for_condition starts its clock
bootstrap_cluster ==
    /\ pc = "idle"
    /\ \E t1 \in Timeouts : \E t2 \in Timeouts \ {t1} :
         cmd' = [NoCmd EXCEPT !.name = "bootstrap-cluster",
                              !.sequencer_start_timeout = t1,
                              !.sequencer_healthy_timeout = t2]
    /\ NetworkUpdate
    /\ start_time' = clock
    /\ pc' = "bs_wait_start"
    /\ UNCHANGED <<sequencers, voting, env, threadVars, exit_code, rpcs, idx,
                   leader, rm_leader, stack, fas, membership, raft, warned,
                   clock, user_input, gemVars>>

bs_start_timeout ==
    WaitTimeout("bs_wait_start", net_update_successful,
                cmd.sequencer_start_timeout)

bs_start_retry ==
    WaitRetry("bs_wait_start", net_update_successful,
              cmd.sequencer_start_timeout)

\* bootstrap_cluster: every sequencer runs; the checks before any request
bs_check ==
    /\ pc = "bs_wait_start"
    /\ net_update_successful
    /\ leader' = find_conductor_leader(snap)
    /\ LET v == BootstrapCheck(snap)
       IN IF v \in {"0", "1"} THEN Abort(v) /\ start_time' = start_time
          ELSE IF v = "force"
          THEN /\ pc' = "bs_force"
               /\ UNCHANGED <<exit_code, stack, start_time>>
          ELSE /\ pc' = "bs_wait_healthy"
               /\ start_time' = clock
               /\ UNCHANGED <<exit_code, stack>>
    /\ UNCHANGED <<snap, update_successful, netVars, threadVars, cmd, rpcs,
                   idx, rm_leader, fas, membership, raft, warned, clock,
                   user_input, gemVars>>

bs_force_active_sequencerOther ==
    /\ pc = "bs_force"
    /\ cmd' = cmd
    /\ FasEnter(CHOOSE n \in Members : n # leader, TRUE, <<"bs_forced">>)

\* bootstrap_cluster: force_active_sequencer(network, leader, force=True)
bs_force_active_sequencer ==
    /\ pc = "bs_force"
    /\ cmd' = cmd
    /\ FasEnter(leader, TRUE, <<"bs_forced">>)

\* bootstrap_cluster: the second wait_for_condition starts its clock
bs_forced ==
    /\ pc = "bs_forced"
    /\ pc' = "bs_wait_healthy"
    /\ start_time' = clock
    /\ UNCHANGED <<snap, update_successful, netVars, threadVars, cmd,
                   exit_code, rpcs, idx, leader, rm_leader, stack, fas,
                   membership, raft, warned, clock, user_input, gemVars>>

bs_healthy_timeoutSharedDeadline ==
    WaitTimeout("bs_wait_healthy", is_healthy(snap),
                cmd.sequencer_start_timeout)

bs_healthy_timeout ==
    WaitTimeout("bs_wait_healthy", is_healthy(snap),
                cmd.sequencer_healthy_timeout)

bs_healthy_retry ==
    WaitRetry("bs_wait_healthy", is_healthy(snap),
              cmd.sequencer_healthy_timeout)

bs_update_cluster_membershipNoWait ==
    /\ pc = "bs_wait_healthy"
    /\ cmd' = cmd
    /\ UcmEnter(<<"bs_resume">>)

\* bootstrap_cluster: all healthy, update_cluster_membership(network)
bs_update_cluster_membership ==
    /\ pc = "bs_wait_healthy"
    /\ is_healthy(snap)
    /\ cmd' = cmd
    /\ UcmEnter(<<"bs_resume">>)

\* bootstrap_cluster: resume(network)
bs_resume ==
    /\ pc = "bs_resume"
    /\ cmd' = cmd
    /\ ConductorEnter("resume_loop", <<"bs_end">>)

\* bootstrap_cluster: "Conductors resumed. Bootstrap complete."
bs_end ==
    /\ pc = "bs_end"
    /\ Return
    /\ UNCHANGED <<snap, update_successful, netVars, threadVars, cmd, rpcs,
                   idx, leader, rm_leader, fas, membership, raft, warned,
                   clock, start_time, user_input, gemVars>>

\* the first sequencer may lead, its sync status may be out of reach; the
\* second one never leads, is healthy and its conductor stays paused
InitBootstrap ==
    /\ sequencers = <<"s1", "s2">>
    /\ voting = [n \in Nodes |-> n # "s2"]
    /\ env = [n \in Nodes |->
                IF n = "s1"
                THEN EnvOf({"conductor_active", "conductor_leader",
                            "sequencer_healthy", "sequencer_active"},
                           {"unsafe_l2"}, {"transport"}, Quiet,
                           {"ok", "rpcerr"})
                ELSE EnvOf({"sequencer_active"}, {}, {},
                           [Quiet EXCEPT !.sequencer_healthy = True],
                           {"ok"})]
    /\ InitObjects
    /\ InitThread
    /\ InitManagers
    /\ cmd = NoCmd /\ pc = "idle" /\ exit_code = "none" /\ rpcs = <<>>
    /\ idx = 0 /\ leader = None /\ rm_leader = None /\ stack = <<>>
    /\ fas = NoFas
    /\ membership = {} /\ warned = {} /\ clock = 0 /\ start_time = 0
    /\ user_input = None
    /\ raft = {<<"s1", 0>>, <<"s2", 0>>}

NextBootstrap ==
    \/ bootstrap_cluster
    \/ bs_start_timeout
    \/ bs_start_retry
    \/ bs_check
    \/ bs_force_active_sequencer
    \/ fas_stop
    \/ fas_start
    \/ bs_forced
    \/ bs_healthy_timeout
    \/ bs_healthy_retry
    \/ bs_update_cluster_membership
    \/ ucm_cluster_membership
    \/ ucm_keep
    \/ ucm_remove_server
    \/ remove_server_rpc
    \/ ucm_add
    \/ ucm_end
    \/ bs_resume
    \/ resume_rpc
    \/ resume_end
    \/ bs_end

\* one run of bootstrap-cluster on two sequencers
SpecBootstrap == InitBootstrap /\ [][NextBootstrap]_vars

AllHealthy == \A n \in Members : snap[n].sequencer_healthy = True

\* C10: bootstrap-cluster on a cluster whose every member reports
\* sequencer_healthy true once every refresh succeeded issues no mutating
\* request and ends with status 0.
C10_HealthyIsNoOp ==
    [][(pc = "bs_wait_start" /\ net_update_successful /\ AllHealthy)
         => (pc' = "done" /\ exit_code' = "0" /\ rpcs' = <<>>)]_vars

\* a bootstrap that had to retry the refresh found the cluster healthy
C10_Witness ==
    /\ cmd.name = "bootstrap-cluster" /\ pc = "done" /\ exit_code = "0"
    /\ clock > 0 /\ AllHealthy /\ net_update_successful /\ rpcs = <<>>

\* the snapshot passes the checks of bootstrap-cluster: a leader is
\* resolved, its conductor is not active, no other member sequences
BootstrapAllowed ==
    LET ldr == find_conductor_leader(snap)
    IN  /\ ldr # None
        /\ snap[ldr].conductor_active # True
        /\ \A n \in Members \ {ldr} : snap[n].sequencer_active # True

\* C11: bootstrap-cluster on an unhealthy cluster goes on to its mutating
\* steps only if a conductor leader is resolvable, that leader's conductor
\* is not active and no non-leader member reports sequencer_active;
\* otherwise it ends with a non-zero status and no mutating request, and no
\* request is issued before these checks.
C11_ChecksBeforeMutation ==
    [][/\ (pc = "bs_wait_start" /\ net_update_successful
              /\ ~is_healthy(snap))
         => IF BootstrapAllowed
            THEN pc' \in {"bs_force", "bs_wait_healthy"} /\ rpcs' = <<>>
            ELSE pc' = "done" /\ NonZero(exit_code') /\ rpcs' = <<>>
       /\ pc \in {"idle", "bs_wait_start"} => rpcs' = <<>>]_vars

\* a bootstrap stopped by the active conductor of the leader
C11_Witness ==
    /\ cmd.name = "bootstrap-cluster" /\ pc = "done" /\ exit_code = "1"
    /\ fas = NoFas /\ net_update_successful /\ ~is_healthy(snap)
    /\ leader # None /\ snap[leader].conductor_active = True
    /\ rpcs = <<>>

\* the step of bootstrap-cluster a control point belongs to: 0 the first
\* wait, 1 forcing the leader active, 2 the health wait, 3
\* update-cluster-membership, 4 resume, 5 the end
Stage(at) ==
    CASE at \in {"idle", "bs_wait_start"} -> 0
      [] at \in {"bs_force", "fas_stop", "fas_start", "bs_forced"} -> 1
      [] at = "bs_wait_healthy" -> 2
      [] at \in {"ucm_membership", "ucm_loop", "ucm_add", "remove_rpc",
                 "bs_resume"} -> 3
      [] at \in {"resume_loop", "bs_end"} -> 4
      [] OTHER -> 5

\* the methods of the requests a step appends to the log
NewMethods == {rpcs'[i].method : i \in (Len(rpcs) + 1)..Len(rpcs')}

\* C12: in every run of bootstrap-cluster the steps follow their order:
\* forcing the leader active, when its sequencer is not active, comes
\* before the health wait; update-cluster-membership starts only from a
\* health wait that observed is_healthy() true; conductor_resume is issued
\* only after update-cluster-membership has returned, hence never after a
\* false is_healthy() that was the last one observed.
C12_StepOrder ==
    [][/\ Stage(pc') >= Stage(pc)
       /\ (pc = "bs_wait_start" /\ pc' = "bs_wait_healthy")
            => snap[find_conductor_leader(snap)].sequencer_active = True
       /\ (Stage(pc) < 3 /\ Stage(pc') = 3)
            => pc = "bs_wait_healthy" /\ is_healthy(snap)
       /\ (Stage(pc) < 4 /\ Stage(pc') = 4) => pc = "bs_resume"
       /\ "conductor_resume" \in NewMethods => Stage(pc) = 4
       /\ NewMethods \cap {"admin_stopSequencer", "admin_startSequencer"}
             # {} => Stage(pc) = 1
       /\ NewMethods \cap {"conductor_removeServer",
                            "conductor_addServerAsVoter",
                            "conductor_addServerAsNonvoter"} # {}
             => Stage(pc) = 3]_vars

\* a complete bootstrap: the leader was forced active, a member was
\* removed and added again, both conductors were resumed
C12_Witness ==
    /\ cmd.name = "bootstrap-cluster" /\ pc = "done" /\ exit_code = "0"
    /\ Issued("admin_startSequencer") # {}
    /\ Issued("conductor_removeServer") # {}
    /\ Cardinality(Issued("conductor_resume")) = 2

\* the wait step bootstrap-cluster is in: its condition and its deadline
Waiting == pc \in {"bs_wait_start", "bs_wait_healthy"}
WaitCondition == IF pc = "bs_wait_start" THEN net_update_successful
                 ELSE is_healthy(snap)
WaitDeadline == IF pc = "bs_wait_start" THEN cmd.sequencer_start_timeout
                ELSE cmd.sequencer_healthy_timeout

C14_ConfirmBeforeMutation ==
    (cmd.name = "bootstrap-cluster" /\ rpcs # <<>>)
        => (cmd.y \/ user_input = "y")

-----------------------------------------------------------------------------
(* override-leader *)

\* what the operator may type at the prompt
Typed == {"y", "Y", "n", "N", "x", ""}

\* str.lower on what may be typed
Lower(t) == CASE t = "Y" -> "y" [] t = "N" -> "n" [] OTHER -> t

OverrideConfirmAnyInput(remove, y, input) ==
    IF remove /\ ~y
    THEN IF Lower(input) = "n" THEN "0" ELSE "rpc"
    ELSE "rpc"

\* override_leader: with --remove and without --y the operator is asked
OverrideConfirm(remove, y, input) ==
    IF remove /\ ~y
    THEN IF Lower(input) \notin {"y", "n"} THEN "1"
         ELSE IF Lower(input) = "n" THEN "0"
         ELSE "rpc"
    ELSE "rpc"

\* override_leader up to its first request
override_leader ==
    /\ pc = "idle"
    /\ \E id \in Ids, remove \in BOOLEAN, y \in BOOLEAN :
         cmd' = [NoCmd EXCEPT !.name = "override-leader", !.sequencer_id = id,
                              !.remove = remove, !.y = y]
    /\ NetworkUpdate
    /\ IF get_sequencer_by_id(cmd'.sequencer_id) = None
       THEN Abort("1") /\ user_input' = user_input
       ELSE \E input \in Typed :
              LET v == OverrideConfirm(cmd'.remove, cmd'.y, input)
              IN /\ user_input' = IF cmd'.remove /\ ~cmd'.y
                                  THEN Lower(input) ELSE user_input
                 /\ IF v = "rpc"
                    THEN pc' = "override_conductor"
                           /\ UNCHANGED <<exit_code, stack>>
                    ELSE Abort(v)
    /\ UNCHANGED <<sequencers, voting, env, threadVars, rpcs, idx, leader,
                   rm_leader, fas, membership, raft, warned, clock, start_time,
                   gemVars>>

override_leader_conductorContinue ==
    /\ pc = "override_conductor"
    /\ \E resp \in Responses(cmd.sequencer_id) :
         /\ rpcs' = Append(rpcs, Rpc("conductor_overrideLeader",
                                     cmd.sequencer_id, Bool(~cmd.remove),
                                     resp))
         /\ IF ~cmd.remove
            THEN pc' = "override_node" /\ UNCHANGED <<exit_code, stack>>
            ELSE IF resp # "ok" THEN Abort(UncaughtExit(resp))
            ELSE Return
    /\ UNCHANGED <<snap, update_successful, netVars, threadVars, cmd, idx,
                   leader, rm_leader, fas, membership, raft, warned, clock,
                   start_time, user_input, gemVars>>

\* override_leader: conductor_overrideLeader(not remove) to the conductor
\* of the sequencer, uncaught
override_leader_conductor ==
    /\ pc = "override_conductor"
    /\ \E resp \in Responses(cmd.sequencer_id) :
         /\ rpcs' = Append(rpcs, Rpc("conductor_overrideLeader",
                                     cmd.sequencer_id, Bool(~cmd.remove),
                                     resp))
         /\ IF resp # "ok" THEN Abort(UncaughtExit(resp))
            ELSE IF ~cmd.remove
            THEN pc' = "override_node" /\ UNCHANGED <<exit_code, stack>>
            ELSE Return
    /\ UNCHANGED <<snap, update_successful, netVars, threadVars, cmd, idx,
                   leader, rm_leader, fas, membership, raft, warned, clock,
                   start_time, user_input, gemVars>>

\* override_leader without --remove: admin_overrideLeader to the node of
\* the sequencer, uncaught
override_leader_node ==
    /\ pc = "override_node"
    /\ \E resp \in Responses(cmd.sequencer_id) :
         /\ rpcs' = Append(rpcs, Rpc("admin_overrideLeader",
                                     cmd.sequencer_id, None, resp))
         /\ IF resp = "ok" THEN Return ELSE Abort(UncaughtExit(resp))
    /\ UNCHANGED <<snap, update_successful, netVars, threadVars, cmd, idx,
                   leader, rm_leader, fas, membership, raft, warned, clock,
                   start_time, user_input, gemVars>>

InitOverride ==
    /\ sequencers = <<"s1", "s2">>
    /\ voting = [n \in Nodes |-> TRUE]
    /\ InitEnv({"conductor_active", "conductor_leader"}, {}, {}, Quiet,
               Kinds)
    /\ InitObjects
    /\ InitThread
    /\ InitManagers
    /\ InitCmd

NextOverride ==
    \/ override_leader
    \/ override_leader_conductor
    \/ override_leader_node

\* one run of override-leader on two sequencers
SpecOverride == InitOverride /\ [][NextOverride]_vars

\* C15: override-leader with --remove and without --y: the request
\* conductor_overrideLeader(false) is issued only after the operator
\* answered y; the answer n ends the command with status 0 and no request,
\* any other answer with a non-zero status and no request; with --remove
\* admin_overrideLeader is never issued.
C15_RemoveNeedsConfirmation ==
    (cmd.name = "override-leader" /\ cmd.remove)
        => /\ Issued("admin_overrideLeader") = {}
           /\ \A i \in Issued("conductor_overrideLeader") :
                 rpcs[i].arg = False
           /\ ~cmd.y =>
                /\ rpcs # <<>> => user_input = "y"
                /\ user_input = "n" =>
                     pc = "done" /\ exit_code = "0" /\ rpcs = <<>>
                /\ user_input \notin {"y", "n"} =>
                     pc = "done" /\ NonZero(exit_code) /\ rpcs = <<>>

\* the operator answered y and the override was removed
C15_Witness ==
    /\ cmd.name = "override-leader" /\ cmd.remove /\ ~cmd.y
    /\ user_input = "y" /\ pc = "done" /\ exit_code = "0"
    /\ Len(rpcs) = 1 /\ rpcs[1].method = "conductor_overrideLeader"
    /\ rpcs[1].arg = False

-----------------------------------------------------------------------------
(* Claims about halt-sequencer *)

AllPaused == \A n \in Members : snap[n].conductor_active = False

\* C16: halt-sequencer without --force issues admin_stopSequencer only
\* when every member's refreshed snapshot has conductor_active false (an
\* unknown conductor_active is not paused) and an active sequencer is
\* found, and only to the node find_active_sequencer returns; otherwise it
\* ends with a non-zero status and no mutating request.
C16_HaltNeedsAllPaused ==
    (cmd.name = "halt-sequencer" /\ ~cmd.force)
        => IF AllPaused /\ find_active_sequencer(snap) # None
           THEN \A i \in 1..Len(rpcs) :
                   /\ rpcs[i].method = "admin_stopSequencer"
                   /\ rpcs[i].to = find_active_sequencer(snap)
           ELSE rpcs = <<>> /\ (pc = "done" => NonZero(exit_code))

-----------------------------------------------------------------------------
(* Claims about force-active-sequencer *)

\* the conductors may be active, the sequencers may sequence, the sync
\* status of a node may be out of reach
InitForceActive ==
    /\ sequencers = <<"s1", "s2">>
    /\ voting = [n \in Nodes |-> TRUE]
    /\ InitEnv({"conductor_active", "sequencer_active", "unsafe_l2"},
               {"unsafe_l2"}, {"http"}, Quiet, Kinds)
    /\ InitObjects
    /\ InitThread
    /\ InitManagers
    /\ InitCmd

NextForceActive ==
    \/ force_active_sequencer
    \/ fas_stop
    \/ fas_start

\* one run of force-active-sequencer on two sequencers
SpecForceActive == InitForceActive /\ [][NextForceActive]_vars

ForceActive == cmd.name = "force-active-sequencer" /\ pc # "idle"

\* C17: force-active-sequencer: if the target id is not a member, or
\* --force is not set and some member reports conductor_active true, the
\* command ends with a non-zero status and issues neither
\* admin_stopSequencer nor admin_startSequencer.
C17_ForceActivePreconditions ==
    (/\ ForceActive
     /\ \/ cmd.sequencer_id \notin Members
        \/ ~cmd.force /\ \E n \in Members : snap[n].conductor_active = True)
        => pc = "done" /\ NonZero(exit_code) /\ rpcs = <<>>

\* a member was the target, but a conductor was active
C17_Witness ==
    /\ ForceActive /\ cmd.sequencer_id = "s2" /\ ~cmd.force
    /\ snap["s1"].conductor_active = True
    /\ snap["s2"].sequencer_active = True
    /\ pc = "done" /\ exit_code = "1" /\ rpcs = <<>>

\* C18: force-active-sequencer never issues admin_startSequencer with an
\* empty or unknown hash: when the hash it holds (the one the stop request
\* returned, else the target's last known unsafe hash) is empty or unknown
\* the command ends with a non-zero status without starting a sequencer.
C18_NoStartWithoutHash ==
    ForceActive
        => /\ \A i \in Issued("admin_startSequencer") :
                 rpcs[i].arg \notin {"", None}
           /\ (pc # "fas_stop" /\ fas.target \in Members
                  /\ fas.hash \in {"", None})
                => /\ pc = "done" /\ NonZero(exit_code)
                   /\ Issued("admin_startSequencer") = {}

\* the stop request returned an empty hash and the command gave up
C18_Witness ==
    /\ ForceActive /\ pc = "done" /\ exit_code = "1"
    /\ Len(rpcs) = 1 /\ rpcs[1].method = "admin_stopSequencer"
    /\ rpcs[1].resp = "ok" /\ fas.hash = ""
    /\ snap[fas.target].unsafe_l2_hash = "h1"

\* C19: force-active-sequencer sends admin_stopSequencer only to an
\* active sequencer other than the target and starts the target with the
\* hash the stop returned; when no other sequencer is active (none is, or
\* the target itself is) no stop request is issued and the target is
\* started with its last known unsafe hash.
C19_StopOnlyOtherSequencer ==
    (ForceActive /\ fas.target \in Members)
        => LET others == {n \in Members \ {fas.target} :
                             snap[n].sequencer_active = True}
           IN  /\ \A i \in Issued("admin_stopSequencer") :
                     rpcs[i].to \in others
               /\ \A i \in Issued("admin_startSequencer") :
                     /\ rpcs[i].to = fas.target
                     /\ rpcs[i].arg = IF others = {}
                                      THEN snap[fas.target].unsafe_l2_hash
                                      ELSE fas.hash

-----------------------------------------------------------------------------
(* Claims about Network.is_healthy *)

\* three members whose health may be true, false or out of reach; the
\* first one leads, sequences and has its conductor paused
InitHealth ==
    /\ sequencers = <<"s1", "s2", "s3">>
    /\ voting = [n \in Nodes |-> TRUE]
    /\ env = [n \in Nodes |->
                EnvOf({"sequencer_healthy"}, {"sequencer_healthy"},
                      {"transport"},
                      [Quiet EXCEPT !.conductor_leader = Bool(n = "s1"),
                                    !.sequencer_active = Bool(n = "s1")],
                      {"ok"})]
    /\ InitObjects
    /\ InitThread
    /\ InitManagers
    /\ InitCmd

\* bootstrap-cluster as far as it tests is_healthy()
NextHealth ==
    \/ bootstrap_cluster
    \/ bs_start_timeout
    \/ bs_start_retry
    \/ bs_check
    \/ bs_healthy_timeout
    \/ bs_healthy_retry

SpecHealth == InitHealth /\ [][NextHealth]_vars

\* C20: Network.is_healthy() is true if and only if every member's
\* sequencer_healthy is true; a single member false or unknown makes it
\* false.
C20_HealthyIffAllHealthy ==
    /\ is_healthy(snap) <=> AllHealthy
    /\ (pc = "bs_wait_healthy" /\ AllHealthy) =>
          ~ENABLED bs_healthy_retry /\ ~ENABLED bs_healthy_timeout
    /\ (pc = "done" /\ exit_code = "0") => AllHealthy

\* the health wait goes on because of one member whose health is unknown
C20_Witness ==
    /\ pc = "bs_wait_healthy" /\ clock > 0
    /\ snap["s1"].sequencer_healthy = True
    /\ snap["s2"].sequencer_healthy = None
    /\ snap["s3"].sequencer_healthy = True
    /\ ~is_healthy(snap)

-----------------------------------------------------------------------------
(* Claims about the lookups of Network *)

\* three members; who leads and who sequences may be true, false or out
\* of reach
InitLookup ==
    /\ sequencers = <<"s1", "s2", "s3">>
    /\ voting = [n \in Nodes |-> TRUE]
    /\ InitEnv({"conductor_leader", "sequencer_active"},
               {"conductor_leader", "sequencer_active"}, {"http"}, Quiet,
               {"ok", "rpcerr"})
    /\ InitObjects
    /\ InitThread
    /\ InitManagers
    /\ InitCmd

\* the commands that look a sequencer up by id, by leadership or by
\* activity
NextLookup ==
    \/ transfer_leader
    \/ transfer_leader_rpc
    \/ halt_sequencer
    \/ halt_sequencer_rpc
    \/ force_active_sequencer
    \/ fas_stop
    \/ fas_start

SpecLookup == InitLookup /\ [][NextLookup]_vars

\* the first member in list order whose field f is true, if there is one
FirstTrue(f) ==
    LET at == {i \in 1..Len(sequencers) : snap[sequencers[i]][f] = True}
    IN  IF at = {} THEN None
        ELSE sequencers[CHOOSE i \in at : \A j \in at : i <= j]

\* C21: find_conductor_leader and find_active_sequencer return none when
\* no member has the flag true (unknown is not true) and otherwise the
\* first member in list order whose flag is true; get_sequencer_by_id
\* returns the member with exactly that id or none. The commands address
\* their requests to the members so found.
C21_Lookups ==
    /\ find_conductor_leader(snap) = FirstTrue("conductor_leader")
    /\ find_active_sequencer(snap) = FirstTrue("sequencer_active")
    /\ \A id \in Ids \cup {None} :
          get_sequencer_by_id(id) =
            IF \E i \in 1..Len(sequencers) : sequencers[i] = id THEN id
            ELSE None
    /\ \A i \in 1..Len(rpcs) :
          /\ rpcs[i].method = "conductor_transferLeaderToServer"
                => rpcs[i].to = FirstTrue("conductor_leader")
          /\ rpcs[i].method = "admin_stopSequencer"
                => rpcs[i].to = FirstTrue("sequencer_active")

\* the second and the third member lead, the first one is out of reach:
\* the transfer went to the second
C21_Witness ==
    /\ snap["s1"].conductor_leader = None
    /\ snap["s2"].conductor_leader = True
    /\ snap["s3"].conductor_leader = True
    /\ snap["s1"].sequencer_active = False
    /\ snap["s3"].sequencer_active = True
    /\ Len(rpcs) = 1 /\ rpcs[1].method = "conductor_transferLeaderToServer"
    /\ rpcs[1].to = "s2"

-----------------------------------------------------------------------------
(* Network.update, thread by thread *)

\* Network.update: executor.map submits one task per member
NetUpdateStart ==
    /\ pc = "idle"
    /\ cycle < MaxCycles
    /\ cycle' = cycle + 1
    /\ pc' = "net_map"
    /\ worker' = [n \in Nodes |-> IF n \in Members THEN "submitted"
                                  ELSE worker[n]]
    /\ UNCHANGED <<snap, update_successful, netVars, upc, fut, outcome,
                   failures, cmd, exit_code, rpcs, idx, leader, rm_leader,
                   stack, fas, membership, raft, warned, clock, start_time,
                   user_input, gemVars>>

\* a worker thread takes the task of the member n: sequencer.update()
WorkerStart(n) ==
    /\ worker[n] = "submitted"
    /\ worker' = [worker EXCEPT ![n] = "running"]
    /\ UNCHANGED <<snap, update_successful, netVars, cycle, upc, fut, outcome,
                   failures, cmdVars, gemVars>>

\* sequencer.update() of the member n returns: its fields and its flag
\* are those of this cycle
WorkerFinish(n) ==
    /\ worker[n] = "running"
    /\ \E u \in Refreshed(Position(n)) :
         /\ snap' = [snap EXCEPT ![n] = u.snap]
         /\ update_successful' =
              [update_successful EXCEPT ![n] = u.update_successful]
    /\ worker' = [worker EXCEPT ![n] = "returned"]
    /\ UNCHANGED <<netVars, cycle, upc, fut, outcome, failures, cmdVars,
                   gemVars>>

NetUpdateReturnNoBarrier ==
    /\ pc = "net_map"
    /\ net_update_successful' = \A n \in Members : update_successful[n]
    /\ pc' = "idle"
    /\ UNCHANGED <<sequencers, voting, env, snap, update_successful,
                   threadVars, cmd, exit_code, rpcs, idx, leader, rm_leader,
                   stack, fas, membership, raft, warned, clock, start_time,
                   user_input, gemVars>>

\* Network.update: list() has consumed the result of every task and the
\* executor has shut down; the aggregate flag is computed
NetUpdateReturn ==
    /\ pc = "net_map"
    /\ \A n \in Members : worker[n] = "returned"
    /\ net_update_successful' = \A n \in Members : update_successful[n]
    /\ pc' = "idle"
    /\ UNCHANGED <<sequencers, voting, env, snap, update_successful,
                   threadVars, cmd, exit_code, rpcs, idx, leader, rm_leader,
                   stack, fas, membership, raft, warned, clock, start_time,
                   user_input, gemVars>>

\* three members; the sync status of each may be out of reach
InitNetUpdate ==
    /\ sequencers = <<"s1", "s2", "s3">>
    /\ voting = [n \in Nodes |-> TRUE]
    /\ InitEnv({"sequencer_healthy"}, {"unsafe_l2"}, {"transport"}, Quiet,
               Kinds)
    /\ InitObjects
    /\ InitThread
    /\ InitManagers
    /\ InitCmd

NextNetUpdate ==
    \/ NetUpdateStart
    \/ \E n \in Members : WorkerStart(n)
    \/ \E n \in Members : WorkerFinish(n)
    \/ NetUpdateReturn

\* one Network refreshed MaxCycles times, member refreshes interleaved
SpecNetUpdate == InitNetUpdate /\ [][NextNetUpdate]_vars

\* C22: for every interleaving of the member refreshes, Network.update
\* computes update_successful only after the refresh of every member has
\* completed, and on return it is the conjunction of the members'
\* update_successful flags of that cycle.
C22_UpdateBarrier ==
    [][/\ net_update_successful' # net_update_successful
            => pc = "net_map" /\ \A n \in Members : worker[n] = "returned"
       /\ (pc = "net_map" /\ pc' # "net_map")
            => /\ \A n \in Members : worker[n] = "returned"
               /\ net_update_successful' =
                    \A n \in Members : update_successful[n]]_vars

\* a second cycle returned false after a first one that returned true
\* while the member that failed was the last one to complete
C22_Witness ==
    /\ cycle = 2 /\ pc = "idle"
    /\ ~net_update_successful
    /\ update_successful["s1"] /\ update_successful["s2"]
    /\ ~update_successful["s3"]
    /\ \A n \in Members : worker[n] = "returned"

-----------------------------------------------------------------------------
(* More claims about the commands *)

\* the target of transfer-leader is the current leader, a voter, healthy,
\* with an active conductor
SelfTransfer ==
    /\ cmd.name = "transfer-leader" /\ pc = "done"
    /\ Target \in Members /\ find_conductor_leader(snap) = Target
    /\ voting[Target]
    /\ snap[Target].sequencer_healthy = True
    /\ snap[Target].conductor_active = True

\* C23: transfer-leader whose target already is the current leader
\* (voting, healthy, conductor active) still issues
\* conductor_transferLeaderToServer to that node, naming the node itself
\* (the id stands for the id and the raft address of the one Sequencer),
\* and succeeds exactly when the request returns no error.
C23_SelfTransferIssued ==
    SelfTransfer
        => /\ Len(rpcs) = 1
           /\ rpcs[1].method = "conductor_transferLeaderToServer"
           /\ rpcs[1].to = Target /\ rpcs[1].arg = Target
           /\ exit_code = "0" <=> rpcs[1].resp = "ok"

\* the leader was asked to transfer leadership to itself and agreed
C23_Witness ==
    SelfTransfer /\ ~cmd.force /\ Target = "s2" /\ exit_code = "0"

-----------------------------------------------------------------------------
(* get_network and status *)

\* the networks of the configuration, and the names an operator may pass
NETWORKS == {"net"}
NetworkNames == NETWORKS \cup {"nx"}

CommandNames == {"status", "transfer-leader", "pause", "resume",
                 "override-leader", "remove-server",
                 "update-cluster-membership", "halt-sequencer",
                 "force-active-sequencer", "bootstrap-cluster"}

\* any command with a network name that is not configured: get_network
\* is its first statement and raises typer.Exit(code=1)
unknown_network ==
    /\ pc = "idle"
    /\ \E name \in CommandNames, network \in NetworkNames \ NETWORKS :
         cmd' = [NoCmd EXCEPT !.name = name, !.network = network]
    /\ Abort("1")
    /\ UNCHANGED <<snap, update_successful, netVars, threadVars, rpcs, idx,
                   leader, rm_leader, fas, membership, raft, warned, clock,
                   start_time, user_input, gemVars>>

\* status: refresh, print the table, resolve the leader
status ==
    /\ pc = "idle"
    /\ cmd' = [NoCmd EXCEPT !.name = "status"]
    /\ NetworkUpdate
    /\ leader' = find_conductor_leader(snap')
    /\ IF leader' = None THEN Return
       ELSE pc' = "status_membership" /\ UNCHANGED <<exit_code, stack>>
    /\ UNCHANGED <<sequencers, voting, env, threadVars, rpcs, idx, rm_leader,
                   fas, membership, raft, warned, clock, start_time,
                   user_input, gemVars>>

\* status: leader.cluster_membership(), uncaught, then the comparison
\* with the configuration is printed
status_cluster_membership ==
    /\ pc = "status_membership"
    /\ \E resp \in Responses(leader) :
         IF resp = "ok" THEN membership' = raft /\ Return
         ELSE membership' = membership /\ Abort("crash")
    /\ UNCHANGED <<snap, update_successful, netVars, threadVars, cmd, rpcs,
                   idx, leader, rm_leader, fas, raft, warned, clock,
                   start_time, user_input, gemVars>>

InitCommands == InitBootstrap

NextCommands ==
    \/ unknown_network
    \/ status
    \/ status_cluster_membership
    \/ NextTransfer
    \/ pause
    \/ pause_rpc
    \/ pause_end
    \/ resume
    \/ override_leader
    \/ override_leader_conductor
    \/ override_leader_node
    \/ remove_server
    \/ remove_server_membership
    \/ update_cluster_membership
    \/ halt_sequencer
    \/ halt_sequencer_rpc
    \/ force_active_sequencer
    \/ NextBootstrap

\* one run of any command, with any network name, on two sequencers
SpecCommands == InitCommands /\ [][NextCommands]_vars

\* every member's conductor and node were read
FullyRead(sn) ==
    \A n \in Members :
        \A f \in {"conductor_active", "conductor_leader",
                   "sequencer_healthy", "sequencer_active"} : sn[n][f] # None

\* C24: every command refreshes every member of the target Network in
\* its first step, before it tests a precondition, and issues a mutating
\* request only on a refreshed snapshot; a command given a network name
\* that is not configured ends with a non-zero status and no request.
C24_RefreshFirst ==
    [][/\ (pc = "idle" /\ cmd'.network \in NETWORKS)
            => FullyRead(snap') /\ rpcs' = <<>>
       /\ rpcs' # rpcs => pc # "idle" /\ FullyRead(snap)
       /\ (pc = "idle" /\ cmd'.network \notin NETWORKS)
            => pc' = "done" /\ NonZero(exit_code') /\ rpcs' = <<>>]_vars

\* a command of each kind ran: this one is halt-sequencer, which stopped
\* the sequencer its refresh had found active
C24_Witness ==
    /\ cmd.name = "halt-sequencer" /\ cmd.network \in NETWORKS
    /\ pc = "done" /\ Len(rpcs) = 1 /\ FullyRead(snap)
    /\ snap[rpcs[1].to].sequencer_active = True

\* C25: wait_for_condition invokes its update function before it
\* evaluates the predicate on every iteration, the first one included. The
\* only call of the update function follows the sleep, so it ran in this
\* wait exactly when the clock is past the start of the wait; every step
\* taken in a wait begins with an evaluation of the predicate.
C25_UpdateBeforePredicate ==
    [][Waiting => clock > start_time]_vars

-----------------------------------------------------------------------------
(* More claims about Sequencer.update *)

\* C26: Sequencer.update returns normally for every combination of probe
\* outcomes: a failed probe (transport, status or RPC error) ends nothing
\* but its own future, every probe of the cycle runs exactly once, also
\* after a sibling failed, and the update returns when, and only when,
\* every future was yielded.
C26_UpdateAlwaysReturns ==
    [][/\ \A p \in Probes :
            /\ outcome'[p] \notin {outcome[p], NoOutcome}
                 => fut[p] = "pending" /\ outcome[p] = NoOutcome
            /\ (upc = "collecting" /\ fut[p] = "pending")
                 => ENABLED ProbeRun(p)
            /\ fut'[p] = "pending" => fut[p] = "pending" \/ cycle' # cycle
       /\ (upc = "collecting" /\ upc' = "returned")
            => \A p \in Probes : fut[p] = "yielded" /\ outcome[p] # NoOutcome
       /\ upc' \in {"idle", "collecting", "returned"}]_vars

\* an update returned although one of its probes had failed
C26_Witness ==
    /\ upc = "returned"
    /\ \E p \in Probes : ProbeRaises(outcome[p])
    /\ \A p \in Probes : fut[p] = "yielded" /\ outcome[p] # NoOutcome

-----------------------------------------------------------------------------
(* More claims about the membership commands *)

\* C27: update-cluster-membership and remove-server abort with a non-zero
\* exit and without any conductor_removeServer or conductor_addServerAs*
\* request when the refreshed snapshot resolves no conductor leader;
\* update-cluster-membership goes on from the leader's cluster-membership
\* call only with the membership the leader returned, and aborts in the
\* same way when that call fails. Every request of the two commands is
\* issued with a resolved leader.
C27_NoLeaderNoRequest ==
    [][/\ (pc = "idle" /\ pc' # "idle"
              /\ find_conductor_leader(snap') = None)
            => pc' = "done" /\ NonZero(exit_code') /\ rpcs' = <<>>
       /\ (pc = "ucm_membership" /\ pc' # pc)
            => \/ pc' = "ucm_loop" /\ membership' = raft /\ rpcs' = <<>>
               \/ pc' = "done" /\ NonZero(exit_code') /\ rpcs' = <<>>
       /\ rpcs' # rpcs
            => /\ pc \in {"remove_rpc", "ucm_add"}
               /\ cmd.name = "update-cluster-membership" => leader # None
               /\ pc = "remove_rpc" => rm_leader # None]_vars

\* update-cluster-membership ended on the failed cluster-membership call
\* of a resolved leader, with nothing requested
C27_Witness ==
    /\ pc = "done"
    /\ cmd.name = "update-cluster-membership"
    /\ leader # None
    /\ exit_code = "crash"
    /\ rpcs = <<>>
    /\ raft # {}

-----------------------------------------------------------------------------
(* More claims about override-leader *)

\* C28: override-leader without --remove requests
\* conductor_overrideLeader(true) from the conductor of the target first
\* and admin_overrideLeader from the node of the target only after the
\* first request returned without error; when the first request fails the
\* second is never issued and the command exits non-zero.
C28_ConductorThenNode ==
    (cmd.name = "override-leader" /\ ~cmd.remove)
        => /\ Len(rpcs) <= 2
           /\ Len(rpcs) >= 1 =>
                /\ rpcs[1].method = "conductor_overrideLeader"
                /\ rpcs[1].to = cmd.sequencer_id
                /\ rpcs[1].arg = True
                /\ rpcs[1].resp # "ok" =>
                     pc = "done" /\ NonZero(exit_code) /\ Len(rpcs) = 1
           /\ Len(rpcs) = 2 =>
                /\ rpcs[1].resp = "ok"
                /\ rpcs[2].method = "admin_overrideLeader"
                /\ rpcs[2].to = cmd.sequencer_id

\* the conductor refused the override and the node was never asked
C28_Witness ==
    /\ cmd.name = "override-leader" /\ ~cmd.remove
    /\ pc = "done"
    /\ Len(rpcs) = 1
    /\ rpcs[1].method = "conductor_overrideLeader"
    /\ rpcs[1].resp # "ok"

-----------------------------------------------------------------------------
(* github-event-manager: ConfigManager and EventManager *)

\* refresh_cache calls made in one run
MaxRefresh == 2
\* events taken from the queue in one run
MaxEvents == 1

\* the periodic refresh thread, and the queue thread, which refreshes for
\* a push that touches the configuration file and then processes the event
Threads == {"periodic", "queue"}

Repos == {"r1", "r2"}
Shas == {"a", "b"}
Events == {"push"}

\* an Optional value: None is <<>>, a value x is <<x>>
Nothing == <<>>
Some(x) == <<x>>

Range(f) == {f[k] : k \in DOMAIN f}

\* RepoMetadata, as far as refresh_cache reads it
RepoMetadatas == [repo_name : Repos, file_sha : Shas]

\* what search_all_repos can return: a list of the repositories that hold
\* the file, each found once, in the order of the organization's listing
SearchResults ==
    {<<>>} \cup {<<m>> : m \in RepoMetadatas}
           \cup {<<m1, m2>> : m1 \in {m \in RepoMetadatas : m.repo_name = "r1"},
                              m2 \in {m \in RepoMetadatas : m.repo_name = "r2"}}

\* the dictionaries a configuration file parses to: a version and the
\* events it lists under listen-for-events
ConfigDicts == {[version |-> 1, listen |-> {}],
                [version |-> 1, listen |-> {"push"}],
                [version |-> 3, listen |-> {"push"}]}

\* what fetch_configuration_from_repository returns: None on any error
FetchResults == {Nothing} \cup {Some(d) : d \in ConfigDicts}

\* BaseRepoConfig.create_from_dict: None for an unknown version
create_from_dict(source_repo_name, config_dict) ==
    IF config_dict.version \in {1, 2}
    THEN Some([version |-> config_dict.version,
               source_repository_name |-> source_repo_name,
               listen_for_events |-> config_dict.listen])
    ELSE Nothing

\* RepoConfigV1.is_event_allowed
is_event_allowed(config, event_name) ==
    event_name \in config.listen_for_events

\* the entry cached for repo_name, if any
CachedFor(cache, repo_name) ==
    {e \in Range(cache) : e.repo_metadata.repo_name = repo_name}

\* refresh_cache, lines 265-268
should_fetch(cache, repo) ==
    \A e \in CachedFor(cache, repo.repo_name) :
       e.repo_metadata.file_sha # repo.file_sha

\* the status trigger_circleci_workflow returns, or the exception of
\* http.client it lets through
TriggerOutcomes == {201, 404, 0}
Raised == 0

\* refresh_cache up to its loop: the lock is taken, the counter is
\* incremented and the repositories are searched; an empty result returns
\* and an exception is caught, both release the lock
refresh_cache(t) ==
    /\ refresh[t].pc = "idle"
    /\ t = "queue" => event.pc \in {"idle", "done"}
    /\ cache_lock = "free"
    /\ repo_search_counter < MaxRefresh
    /\ repo_search_counter' = repo_search_counter + 1
    /\ \E raised \in BOOLEAN, repos \in SearchResults :
         IF raised \/ repos = <<>>
         THEN /\ refresh' = [refresh EXCEPT ![t] = IdleRefresh]
              /\ cache_lock' = cache_lock
         ELSE /\ refresh' = [refresh EXCEPT ![t] =
                    [pc |-> "loop", repos |-> repos, i |-> 1,
                     new_cache |-> <<>>, fetched |-> <<>>]]
              /\ cache_lock' = t
    /\ UNCHANGED <<cached_config, eventVars, snap, update_successful,
                   netVars, threadVars, cmdVars>>

refresh_cache_repoKeepStale(t) ==
    /\ refresh[t].pc = "loop"
    /\ refresh[t].i <= Len(refresh[t].repos)
    /\ LET r == refresh[t]
           repo == r.repos[r.i]
       IN IF should_fetch(cached_config, repo)
          THEN \E config_data \in FetchResults :
                 refresh' = [refresh EXCEPT ![t] =
                   [r EXCEPT
                      !.i = @ + 1,
                      !.fetched = Append(@, [repo_name |-> repo.repo_name,
                                             config_data |-> config_data]),
                      !.new_cache =
                         IF config_data # Nothing
                         THEN Append(@,
                                [repo_metadata |-> repo,
                                 last_fetched |-> repo_search_counter,
                                 configuration |->
                                    create_from_dict(repo.repo_name,
                                                     config_data[1])])
                         ELSE IF CachedFor(cached_config,
                                           repo.repo_name) # {}
                         THEN Append(@, CHOOSE e \in CachedFor(
                                           cached_config, repo.repo_name) :
                                           TRUE)
                         ELSE @]]
          ELSE refresh' = [refresh EXCEPT ![t] =
                 [r EXCEPT
                    !.i = @ + 1,
                    !.new_cache =
                       Append(@, CHOOSE e \in CachedFor(cached_config,
                                                         repo.repo_name) :
                                    TRUE)]]
    /\ UNCHANGED <<cached_config, cache_lock, repo_search_counter, eventVars,
                   snap, update_successful, netVars, threadVars, cmdVars>>

\* refresh_cache, one iteration of the loop over the found repositories
refresh_cache_repo(t) ==
    /\ refresh[t].pc = "loop"
    /\ refresh[t].i <= Len(refresh[t].repos)
    /\ LET r == refresh[t]
           repo == r.repos[r.i]
       IN IF should_fetch(cached_config, repo)
          THEN \E config_data \in FetchResults :
                 refresh' = [refresh EXCEPT ![t] =
                   [r EXCEPT
                      !.i = @ + 1,
                      !.fetched = Append(@, [repo_name |-> repo.repo_name,
                                             config_data |-> config_data]),
                      !.new_cache =
                         IF config_data # Nothing
                         THEN Append(@,
                                [repo_metadata |-> repo,
                                 last_fetched |-> repo_search_counter,
                                 configuration |->
                                    create_from_dict(repo.repo_name,
                                                     config_data[1])])
                         ELSE @]]
          ELSE refresh' = [refresh EXCEPT ![t] =
                 [r EXCEPT
                    !.i = @ + 1,
                    !.new_cache =
                       Append(@, CHOOSE e \in CachedFor(cached_config,
                                                         repo.repo_name) :
                                    TRUE)]]
    /\ UNCHANGED <<cached_config, cache_lock, repo_search_counter, eventVars,
                   snap, update_successful, netVars, threadVars, cmdVars>>

\* refresh_cache: the new dictionary replaces the cache, the lock is
\* released
refresh_cache_publish(t) ==
    /\ refresh[t].pc = "loop"
    /\ refresh[t].i > Len(refresh[t].repos)
    /\ cached_config' = refresh[t].new_cache
    /\ cache_lock' = "free"
    /\ refresh' = [refresh EXCEPT ![t] = IdleRefresh]
    /\ UNCHANGED <<repo_search_counter, eventVars, snap, update_successful,
                   netVars, threadVars, cmdVars>>

\* process_event up to its loop: the counter of received events, and
\* get_all_repo_configs, the values of the dictionary that is the cache now
process_event ==
    /\ event.pc \in {"idle", "done"}
    /\ refresh["queue"].pc = "idle"
    /\ events_received_counter < MaxEvents
    /\ events_received_counter' = events_received_counter + 1
    /\ \E name \in Events :
         event' = [pc |-> "loop", name |-> name,
                   repo_configs |-> cached_config, i |-> 1, caught |-> FALSE]
    /\ triggers' = <<>>
    /\ UNCHANGED <<triggers_sent_counter, triggers_succeeded_counter,
                   managerVars, snap, update_successful, netVars, threadVars,
                   cmdVars>>

\* process_event, the loop: is_event_allowed of the configuration; a
\* configuration that is None raises, which ends the loop in the except
\* clause around it; an allowed event increments the sent counter
process_event_check ==
    /\ event.pc = "loop"
    /\ event.i <= Len(event.repo_configs)
    /\ LET config == event.repo_configs[event.i].configuration
       IN IF config = Nothing
          THEN /\ event' = [event EXCEPT !.pc = "done", !.caught = TRUE]
               /\ UNCHANGED triggers_sent_counter
          ELSE IF is_event_allowed(config[1], event.name)
          THEN /\ event' = [event EXCEPT !.pc = "trigger"]
               /\ triggers_sent_counter' = triggers_sent_counter + 1
          ELSE /\ event' = [event EXCEPT !.i = @ + 1]
               /\ UNCHANGED triggers_sent_counter
    /\ UNCHANGED <<events_received_counter, triggers_succeeded_counter,
                   triggers, managerVars, snap, update_successful, netVars,
                   threadVars, cmdVars>>

\* process_event, the loop: trigger_circleci_workflow; an exception of the
\* connection ends the loop in the except clause, a 2xx status increments
\* the succeeded counter
process_event_trigger ==
    /\ event.pc = "trigger"
    /\ \E response_status \in TriggerOutcomes :
         LET repo_name ==
               event.repo_configs[event.i].repo_metadata.repo_name
         IN /\ triggers' = Append(triggers, [repo_name |-> repo_name,
                                             status |-> response_status])
            /\ IF response_status = Raised
               THEN /\ event' = [event EXCEPT !.pc = "done",
                                               !.caught = TRUE]
                    /\ UNCHANGED triggers_succeeded_counter
               ELSE /\ event' = [event EXCEPT !.pc = "loop", !.i = @ + 1]
                    /\ triggers_succeeded_counter' =
                         IF 200 <= response_status /\ response_status < 300
                         THEN triggers_succeeded_counter + 1
                         ELSE triggers_succeeded_counter
    /\ UNCHANGED <<events_received_counter, triggers_sent_counter,
                   managerVars, snap, update_successful, netVars, threadVars,
                   cmdVars>>

\* process_event: the loop is over
process_event_end ==
    /\ event.pc = "loop"
    /\ event.i > Len(event.repo_configs)
    /\ event' = [event EXCEPT !.pc = "done"]
    /\ UNCHANGED <<events_received_counter, triggers_sent_counter,
                   triggers_succeeded_counter, triggers, managerVars, snap,
                   update_successful, netVars, threadVars, cmdVars>>

InitEvents ==
    /\ sequencers = <<>>
    /\ voting = [n \in Nodes |-> TRUE]
    /\ env = [n \in Nodes |-> [p \in Probes \cup {"mutating"} |-> {}]]
    /\ InitObjects
    /\ InitThread
    /\ InitManagers
    /\ InitCmd

NextEvents ==
    \/ \E t \in Threads : refresh_cache(t)
    \/ \E t \in Threads : refresh_cache_repo(t)
    \/ \E t \in Threads : refresh_cache_publish(t)
    \/ process_event
    \/ process_event_check
    \/ process_event_trigger
    \/ process_event_end

\* the two threads of the event manager: refreshes of the cache and the
\* events of the queue
SpecEvents == InitEvents /\ [][NextEvents]_vars

-----------------------------------------------------------------------------
(* Claims about ConfigManager.refresh_cache *)

\* the found repositories whose file SHA is the cached one
SameSha(cache, repos) ==
    {m \in Range(repos) : \E e \in Range(cache) : e.repo_metadata = m}

\* the found repositories whose configuration this refresh fetched
FetchedOk(repos, fetched) ==
    {m \in Range(repos) :
       \E f \in Range(fetched) :
          f.repo_name = m.repo_name /\ f.config_data # Nothing}

\* C29: a refresh whose search found repositories leaves in the cache
\* exactly the found repositories whose configuration it fetched or whose
\* file SHA is the cached one, the latter with their cached entry and
\* without a fetch; every other repository is evicted. The cache changes
\* in no other step (not after an empty search, not after an error, not
\* while a refresh builds its dictionary), and a thread is in the loop of
\* a refresh only while it holds the lock.
C29_RefreshCache ==
    [][/\ \A t \in Threads :
            (refresh[t].pc = "loop" /\ refresh'[t].pc = "idle")
              => LET repos == refresh[t].repos
                     fetched == refresh[t].fetched
                     same == SameSha(cached_config, repos)
                     held == same \cup FetchedOk(repos, fetched)
                 IN /\ {e.repo_metadata : e \in Range(cached_config')} = held
                    /\ Len(cached_config') = Cardinality(held)
                    /\ \A m \in same :
                          /\ CachedFor(cached_config', m.repo_name)
                               = CachedFor(cached_config, m.repo_name)
                          /\ \A f \in Range(fetched) :
                                f.repo_name # m.repo_name
       /\ cached_config' # cached_config
            => \E t \in Threads :
                  /\ cache_lock = t
                  /\ refresh[t].pc = "loop"
                  /\ refresh[t].i > Len(refresh[t].repos)
                  /\ refresh'[t].pc = "idle"
       /\ \A t \in Threads : refresh'[t].pc = "loop" => cache_lock' = t]_vars

\* the second refresh reused one entry, fetched another, and no refresh is
\* running
C29_Witness ==
    /\ \A t \in Threads : refresh[t].pc = "idle"
    /\ Len(cached_config) = 2
    /\ cached_config[1].last_fetched = 1
    /\ cached_config[2].last_fetched = 2

-----------------------------------------------------------------------------
(* Claims about EventManager.process_event *)

\* the requests of this event for the repository repo_name
TriggersFor(repo_name) ==
    {k \in DOMAIN triggers : triggers[k].repo_name = repo_name}

\* C30: when process_event has returned, every configuration it read from
\* the cache that allows the event got exactly one CircleCI request,
\* whatever happened while another configuration was handled; and the
\* succeeded counter never exceeds the sent counter.
C30_EveryAllowedTriggered ==
    /\ triggers_succeeded_counter <= triggers_sent_counter
    /\ event.pc = "done" =>
         \A k \in DOMAIN event.repo_configs :
            LET c == event.repo_configs[k]
            IN (c.configuration # Nothing
                  /\ is_event_allowed(c.configuration[1], event.name))
                 => Cardinality(TriggersFor(c.repo_metadata.repo_name)) = 1

-----------------------------------------------------------------------------
(* More claims about transfer-leader *)

\* C31: transfer-leader to an id that is no member of the network, with a
\* conductor leader resolvable, ends in the handled precondition failure
\* (exit code 1), not in an unhandled error, and issues no
\* conductor_transferLeaderToServer.
C31_UnknownTargetHandled ==
    (cmd.name = "transfer-leader" /\ Target \notin Members
       /\ find_conductor_leader(snap) # None)
        => /\ ~TransferIssued
           /\ pc = "done" /\ exit_code = "1"

-----------------------------------------------------------------------------
(* Termination of wait_for_condition *)

\* the command keeps running: the loop of wait_for_condition is never
\* suspended for ever between two polls
SpecHealthFair == SpecHealth /\ WF_vars(NextHealth)

\* C32: wait_for_condition terminates whatever the predicate and the
\* update function do, the clock advancing by the sleep of every retry: a
\* wait whose predicate is false ends, by the predicate turning true or by
\* the timeout; it never runs longer than its timeout and one sleep; and a
\* true predicate is never timed out, the first evaluation with a zero
\* timeout included.
C32_WaitTerminates ==
    /\ [](Waiting => clock - start_time <= WaitDeadline + RetrySeconds)
    /\ []((Waiting /\ WaitCondition)
            => ~ENABLED bs_start_timeout /\ ~ENABLED bs_healthy_timeout)
    /\ (Waiting /\ ~WaitCondition) ~> (~Waiting \/ WaitCondition)

\* a wait with a zero timeout ended on the poll after its first sleep
C32_Witness ==
    /\ cmd.name = "bootstrap-cluster" /\ pc = "done" /\ exit_code = "1"
    /\ cmd.sequencer_start_timeout = 0
    /\ ~net_update_successful
    /\ clock = start_time + RetrySeconds

-----------------------------------------------------------------------------
(* Claims about the threads of Sequencer.update *)

SnapshotFields == DOMAIN InitSnapshot

\* C33: within one Sequencer.update() a snapshot field is written by one
\* probe only, the probe it belongs to, and update_successful by no probe
\* but by the coordinating thread as it takes a completed future; so a
\* field read in this refresh holds the value its probe read, in whatever
\* order the probes ran.
C33_DisjointWrites ==
    [][/\ \A f \in SnapshotFields :
            snap'[Self][f] # snap[Self][f]
              => \E p \in Probes :
                    /\ f \in ProbeFields(p)
                    /\ fut[p] = "pending" /\ fut'[p] = "finished"
                    /\ \A q \in Probes \ {p} : fut'[q] = fut[q]
       /\ update_successful' # update_successful
            => /\ upc = "collecting"
               /\ \E p \in Probes :
                     fut[p] = "finished" /\ fut'[p] = "yielded"
               /\ snap' = snap
       /\ \A p \in Probes :
            (fut'[p] # "pending" /\ outcome'[p].kind = "ok")
              => IF p = "unsafe_l2"
                 THEN snap'[Self].unsafe_l2_hash = outcome'[p].val
                 ELSE snap'[Self][p] = outcome'[p].val]_vars

\* the second refresh returned with a probe that read a value and a
\* probe that failed
C33_Witness ==
    /\ upc = "returned" /\ cycle = 2
    /\ outcome["conductor_leader"].kind = "ok"
    /\ snap[Self].conductor_leader = outcome["conductor_leader"].val
    /\ outcome["conductor_active"].kind # "ok"

-----------------------------------------------------------------------------
(* Frame of the refreshes and the commands *)

\* C34: no refresh and no command changes the configuration of the
\* network: the member list and its order, and each member's identity
\* and voting flag stay as constructed; of the Sequencer and Network
\* objects only the observed snapshot fields and the update_successful
\* flags change.
C34_ConfigurationFrame ==
    [][/\ sequencers' = sequencers
       /\ voting' = voting
       /\ DOMAIN snap' = DOMAIN snap
       /\ \A n \in DOMAIN snap : DOMAIN snap'[n] = SnapshotFields]_vars

\* a command that removed a server from the Raft group ended well, after
\* a refresh that changed the snapshot, with the configuration as it was
C34_Witness ==
    /\ pc = "done" /\ exit_code = "0"
    /\ \E i \in Issued("conductor_removeServer") : rpcs[i].resp = "ok"
    /\ sequencers = <<"s1", "s2">>
    /\ \E n \in Members : snap[n] # InitSnapshot

-----------------------------------------------------------------------------
(* force-active-sequencer and the sequencers that run *)

\* each node sequences or not when the command begins, and answers
\* admin_sequencerActive with that or with a bad status; the conductors
\* may be active
InitActive ==
    /\ sequencers = <<"s1", "s2">>
    /\ voting = [n \in Nodes |-> TRUE]
    /\ \E act \in [Nodes -> BOOLEAN] :
         env = [n \in Nodes |->
                  EnvOf({"conductor_active"}, {"sequencer_active"}, {"http"},
                        [Quiet EXCEPT !.sequencer_active = Bool(act[n])],
                        {"ok", "rpcerr"})]
    /\ InitObjects
    /\ InitThread
    /\ InitManagers
    /\ InitCmd

\* one run of force-active-sequencer on two sequencers whose state is
\* known
SpecActive == InitActive /\ [][NextForceActive]_vars

\* the node n sequenced when the command began
WasActive(n) == Ok(True) \in env[n]["sequencer_active"]

RECURSIVE ActiveAfter(_)
\* the members that sequence after the first k requests of the command: a
\* stop that returned without error stopped its node, a start that
\* returned without error started it
ActiveAfter(k) ==
    IF k = 0 THEN {n \in Members : WasActive(n)}
    ELSE LET r == rpcs[k]
             before == ActiveAfter(k - 1)
         IN IF r.resp # "ok" THEN before
            ELSE IF r.method = "admin_stopSequencer" THEN before \ {r.to}
            ELSE IF r.method = "admin_startSequencer"
            THEN before \cup {r.to}
            ELSE before

\* C35: force-active-sequencer stops before it starts: when the refreshed
\* snapshot shows an active sequencer, admin_startSequencer is issued only
\* after admin_stopSequencer to that sequencer returned without error; and
\* when at most one sequencer ran as the command began, no request of the
\* command leaves two sequencers running.
C35_StopBeforeStart ==
    ForceActive
        => /\ \A i \in Issued("admin_startSequencer") :
                 find_active_sequencer(snap) # None
                   => \E j \in Issued("admin_stopSequencer") :
                         /\ j < i
                         /\ rpcs[j].to = find_active_sequencer(snap)
                         /\ rpcs[j].resp = "ok"
           /\ Cardinality(ActiveAfter(0)) <= 1
                => \A k \in 0..Len(rpcs) : Cardinality(ActiveAfter(k)) <= 1

\* C36: force-active-sequencer never ends with the active sequencer
\* stopped and no attempt to start the target: whenever
\* admin_stopSequencer returned without error, admin_startSequencer is
\* issued to the target afterwards.
C36_StopThenStart ==
    (ForceActive /\ pc = "done")
        => \A j \in Issued("admin_stopSequencer") :
              rpcs[j].resp = "ok"
                => \E i \in Issued("admin_startSequencer") :
                      i > j /\ rpcs[i].to = fas.target

-----------------------------------------------------------------------------
(* More claims about update-cluster-membership *)

\* the configured node id is in the membership read from the leader with
\* the suffrage that is not the one of its voting flag
Mismatch(id) ==
    \/ voting[id] /\ <<id, 1>> \in membership
    \/ ~voting[id] /\ <<id, 0>> \in membership

\* C37: update-cluster-membership issues conductor_removeServer only for
\* a configured node that is in the Raft group with a suffrage other than
\* int(not voting): never for a node whose suffrage matches its
\* configuration, and never for a member of the group that is not
\* configured.
C37_RemoveOnlyMismatch ==
    cmd.name = "update-cluster-membership"
        => \A i \in Issued("conductor_removeServer") :
              /\ rpcs[i].arg \in Members
              /\ Mismatch(rpcs[i].arg)

\* a run that removed one configured node, kept the other, which was in
\* the group as configured, and left the foreign member of the group alone
C37_Witness ==
    /\ cmd.name = "update-cluster-membership" /\ pc = "done"
    /\ Cardinality(Issued("conductor_removeServer")) = 1
    /\ \E id \in Members : InGroup(membership, id) /\ ~Mismatch(id)
    /\ InGroup(membership, "sx") /\ InGroup(raft, "sx")

\* C38: update-cluster-membership never removes from the Raft group the
\* node it resolved as conductor leader, a voter of the group, to which
\* its requests are addressed; so every add request goes to a node that
\* still is a member of the group.
C38_LeaderNotRemoved ==
    (cmd.name = "update-cluster-membership" /\ leader # None
       /\ <<leader, 0>> \in membership)
        => /\ \A i \in Issued("conductor_removeServer") :
                 rpcs[i].resp = "ok" => rpcs[i].arg # leader
           /\ \A i \in 1..Len(rpcs) :
                 rpcs[i].method = AddMethod(rpcs[i].arg)
                   => rpcs[i].to = leader

\* update-cluster-membership returned and each of its requests succeeded
AllSucceeded ==
    /\ cmd.name = "update-cluster-membership"
    /\ pc = "done" /\ exit_code = "0"
    /\ \A i \in 1..Len(rpcs) : rpcs[i].resp = "ok"

\* C39: when a conductor leader was resolved and every request succeeded,
\* after update-cluster-membership returns every configured node is in
\* the Raft group with the suffrage of its voting flag (0 iff voting), and
\* a second run, which reads this group as the membership, removes no
\* node and its add requests leave the group as it is.
C39_Convergence ==
    AllSucceeded
        => \A id \in Members :
              /\ <<id, IntNotVoting(id)>> \in raft
              /\ (SuffrageOf(raft, id) = 0) <=> voting[id]
              /\ ~NeedsRemove(raft, id)
              /\ RaftApply(raft, AddMethod(id), id) = raft

\* a successful run that removed a node whose suffrage was not the
\* configured one and added a node that was not in the group
C39_Witness ==
    /\ AllSucceeded
    /\ \E id \in Members : Mismatch(id)
    /\ \E id \in Members : ~InGroup(membership, id)
    /\ Len(rpcs) = 3
    /\ raft # membership

-----------------------------------------------------------------------------
(* More claims about bootstrap-cluster *)

\* the admin_startSequencer requests this step appends to the log
NewStarts ==
    {i \in 1..Len(rpcs') :
        i > Len(rpcs) /\ rpcs'[i].method = "admin_startSequencer"}

\* C40: bootstrap-cluster issues admin_startSequencer only to the node it
\* resolved as conductor leader, and only in a run where no member other
\* than the leader reported sequencer_active at the precondition check:
\* forcing is entered only from the check, with such a snapshot; the
\* target of force_active_sequencer is the resolved leader and stays it;
\* a start request is made only there and goes to that leader.
C40_StartOnlyLeader ==
    [][cmd'.name = "bootstrap-cluster"
        => /\ (pc' = "bs_force" /\ pc # "bs_force")
                => /\ pc = "bs_wait_start"
                   /\ leader' # None /\ leader' = find_conductor_leader(snap)
                   /\ \A n \in Members \ {leader'} :
                         snap[n].sequencer_active # True
           /\ (pc' \in {"fas_stop", "fas_start"}
                 /\ pc \notin {"fas_stop", "fas_start"})
                => pc = "bs_force" /\ fas'.target = leader
                     /\ leader' = leader
           /\ pc \in {"fas_stop", "fas_start"}
                => fas'.target = fas.target /\ leader' = leader
           /\ \A i \in NewStarts :
                 /\ pc = "fas_start"
                 /\ leader # None
                 /\ rpcs'[i].to = leader]_vars

\* a bootstrap that started the sequencer of the leader it resolved, after
\* stopping no one, and went on to wait for the sequencers to be healthy
C40_Witness ==
    /\ cmd.name = "bootstrap-cluster"
    /\ pc = "bs_wait_healthy"
    /\ leader # None /\ fas.target = leader
    /\ Len(rpcs) = 1
    /\ rpcs[1].method = "admin_startSequencer"
    /\ rpcs[1].to = leader /\ rpcs[1].resp = "ok"

=============================================================================
